---- MODULE Spec2Model ----
(***************************************************************************)
(* Server-authoritative action history of the collaborative canvas:        *)
(* src/server/drawing-state.ts (room state and its operations),            *)
(* src/server/server.ts (socket.io handlers and broadcasts) and the        *)
(* history mirror kept by each client, src/client/main.ts and              *)
(* src/client/websocket.ts.                                                *)
(*                                                                         *)
(* A socket id names one connection for its whole life: it connects once,  *)
(* sends messages, and closes.  The server is a single-threaded event      *)
(* loop, so every handler is one atomic step; the only await of the        *)
(* connection handler (fetchSockets of the in-memory adapter) resolves in  *)
(* a microtask, before any other message is read.  Each connection has a   *)
(* reliable FIFO channel from the server to its client.                    *)
(*                                                                         *)
(* Spec is the protocol.  SpecTraced is the same protocol with the history *)
(* variable lastOp, which records the handler the server ran last.         *)
(* SpecRouter adds the draw-shape and clear-canvas handlers.  SpecClient   *)
(* is the protocol with what each page shows: the raster of its canvas and *)
(* its snapshot cache (main.ts, canvas.ts); in the other specifications a  *)
(* live draw-event is consumed without effect.  SpecKV is the drawing      *)
(* state that persists rooms in a key-value store (src/unnamed/part_008).  *)
(* SpecShapes is SpecClient with the page that has the rectangle tool      *)
(* (src/unnamed/part_001); SpecClear is SpecClient with the clear-canvas   *)
(* handler.                                                                *)
(***************************************************************************)
EXTENDS Integers, Sequences, FiniteSets, TLC

(* ---------------------------- bounds ----------------------------------- *)
MaxActions == 2     \* actions created by startUserAction in one run
MaxEvents == 2      \* events of one action (the start event included)
MaxLog == 3         \* commit/undo/redo notifications of one room
MaxChan == 2        \* undelivered messages of one connection

\* Socket ids, in the order the connections are made.
SocketOrder == <<"s1", "s2">>

Sockets == {SocketOrder[i] : i \in 1..Len(SocketOrder)}

Rooms == {"r1", "r2"}

\* The room a connection may ask for (handshake query): the room of the
\* first connection is called r1.
QueryRooms(s) == IF s = SocketOrder[1] THEN {"r1"} ELSE Rooms

\* The values Date.now() may return.
Times == 0..1

NoSocket == "-"
NoRoom == "-"

VARIABLES
    now,                 \* the latest value Date.now() returned
    roomStates,          \* drawing-state.ts: Map roomName -> RoomState
    roomOrder,           \* insertion order of the roomStates map
    activeUsers,         \* server.ts: keys of the activeUsers map
    conn,                \* per socket: "new", "connected" or "closed"
    socketRoom,          \* socket.roomName
    chan,                \* per socket: messages emitted to it, not yet processed
    localActionHistory,  \* client main.ts: the history mirror
    selfUser,            \* client main.ts: own user id from welcome
    cursors,             \* client main.ts: ids of the other users known
    nextObj,             \* number of DrawAction objects created so far
    sentStroke,          \* per socket: events sent since its latest start-drawing
    serverLog,           \* per room: notifications in the order they were applied
    recvPos,             \* per socket: how much of serverLog it has processed
    discarded,           \* objects that were active when their socket closed
    lastOp,              \* SpecTraced: the handler the server ran last
    canvas,              \* client main.ts: the pixels of the canvas element
    stateCache,          \* client main.ts: Map key -> snapshot of the canvas
    kvStore,             \* the key-value store: per room, the document stored
    kvCalls,             \* calls of the persistent drawing state not yet returned
    kvWrites,            \* kv.set requests sent, not yet answered
    kvReturned,          \* the call that returned last, with its result
    kvNextCall,          \* number of calls made so far
    kvFailed             \* per room: whether a kv.set of the room has failed

vars == <<now, roomStates, roomOrder, activeUsers, conn, socketRoom, chan,
          localActionHistory, selfUser, cursors, nextObj, sentStroke,
          serverLog, recvPos, discarded, lastOp, canvas, stateCache,
          kvStore, kvCalls, kvWrites, kvReturned, kvNextCall, kvFailed>>

\* What a client shows: written by SpecClient, SpecShapes and
\* SpecClear only.
rendering == <<canvas, stateCache>>

\* The store and the calls of the persistent drawing state: written by
\* SpecKV only.
persistence == <<kvStore, kvCalls, kvWrites, kvReturned, kvNextCall, kvFailed>>

(* --------------------------- payloads ---------------------------------- *)
\* The k-th DrawEventData of a stroke of the client of socket s: the client
\* chains each segment to the end of the previous one (main.ts startDrawing,
\* getDrawData), with the colour and width the user has picked.
Segment(s, k) == [color |-> s, seg |-> k]

(* ------------------------- sequences ----------------------------------- *)
Last(s) == s[Len(s)]

Front(s) == SubSeq(s, 1, Len(s) - 1)

RECURSIVE SelectIdNot(_, _)
\* Array.prototype.filter(a => a.id !== actionId)
SelectIdNot(s, actionId) ==
    IF s = <<>> THEN <<>>
    ELSE IF Head(s).id # actionId
         THEN <<Head(s)>> \o SelectIdNot(Tail(s), actionId)
         ELSE SelectIdNot(Tail(s), actionId)

(* ----------------------- drawing-state.ts ------------------------------ *)
\* A RoomState.  activeActions is a Map: its DOMAIN is the set of keys.
BlankRoomState ==
    [actionHistory |-> <<>>, redoStack |-> <<>>, activeActions |-> <<>>]

\* The map after getRoomState(roomName): the room is created when missing.
getRoomState(rs, roomName) ==
    IF roomName \in DOMAIN rs THEN rs ELSE rs @@ (roomName :> BlankRoomState)

\* The insertion order of the map after getRoomState(roomName).
orderAfter(rs, ord, roomName) ==
    IF roomName \in DOMAIN rs THEN ord ELSE Append(ord, roomName)

\* Map.set(key, value)
MapSet(m, key, value) ==
    [k \in (DOMAIN m) \cup {key} |-> IF k = key THEN value ELSE m[k]]

\* Map.delete(key)
MapDelete(m, key) == [k \in (DOMAIN m) \ {key} |-> m[k]]

\* A new DrawAction: id `${socketId}-${Date.now()}`, events [startEvent].
\* obj is the identity of the JavaScript object (no two objects share it).
newAction(socketId, t, startEvent, obj) ==
    [id |-> <<socketId, t>>, events |-> <<startEvent>>, obj |-> obj]

\* startUserAction that keeps the action already active for the socket.
startUserAction_KeepFirst(rs, roomName, socketId, startEvent, t, obj) ==
    LET rs1 == getRoomState(rs, roomName)
        state == rs1[roomName]
    IN IF socketId \in DOMAIN state.activeActions THEN rs1
       ELSE [rs1 EXCEPT ![roomName] =
               [state EXCEPT !.activeActions =
                   MapSet(state.activeActions, socketId,
                          newAction(socketId, t, startEvent, obj))]]

startUserAction(rs, roomName, socketId, startEvent, t, obj) ==
    LET rs1 == getRoomState(rs, roomName)
        state == rs1[roomName]
    IN [rs1 EXCEPT ![roomName] =
            [state EXCEPT !.activeActions =
                MapSet(state.activeActions, socketId,
                       newAction(socketId, t, startEvent, obj))]]

\* stopUserAction without `state.redoStack.length = 0`.
stopUserAction_KeepRedo(rs, roomName, socketId) ==
    LET rs1 == getRoomState(rs, roomName)
        state == rs1[roomName]
    IN IF socketId \in DOMAIN state.activeActions
       THEN LET action == state.activeActions[socketId]
            IN [rs |-> [rs1 EXCEPT ![roomName] =
                          [actionHistory |-> Append(state.actionHistory, action),
                           redoStack |-> state.redoStack,
                           activeActions |-> MapDelete(state.activeActions, socketId)]],
                ret |-> <<action>>]
       ELSE [rs |-> rs1, ret |-> <<>>]

\* stopUserAction with `state.redoStack.length = 0` moved out of the `if`.
stopUserAction_ClearAlways(rs, roomName, socketId) ==
    LET rs1 == getRoomState(rs, roomName)
        state == rs1[roomName]
    IN IF socketId \in DOMAIN state.activeActions
       THEN LET action == state.activeActions[socketId]
            IN [rs |-> [rs1 EXCEPT ![roomName] =
                          [actionHistory |-> Append(state.actionHistory, action),
                           redoStack |-> <<>>,
                           activeActions |-> MapDelete(state.activeActions, socketId)]],
                ret |-> <<action>>]
       ELSE [rs |-> [rs1 EXCEPT ![roomName].redoStack = <<>>], ret |-> <<>>]

\* stopUserAction without `state.activeActions.delete(socketId)`.
stopUserAction_KeepActive(rs, roomName, socketId) ==
    LET rs1 == getRoomState(rs, roomName)
        state == rs1[roomName]
    IN IF socketId \in DOMAIN state.activeActions
       THEN LET action == state.activeActions[socketId]
            IN [rs |-> [rs1 EXCEPT ![roomName] =
                          [actionHistory |-> Append(state.actionHistory, action),
                           redoStack |-> <<>>,
                           activeActions |-> state.activeActions]],
                ret |-> <<action>>]
       ELSE [rs |-> rs1, ret |-> <<>>]

\* Returns [rs |-> the map afterwards, ret |-> <<action>> or <<>> (undefined)].
stopUserAction(rs, roomName, socketId) ==
    LET rs1 == getRoomState(rs, roomName)
        state == rs1[roomName]
    IN IF socketId \in DOMAIN state.activeActions
       THEN LET action == state.activeActions[socketId]
            IN [rs |-> [rs1 EXCEPT ![roomName] =
                          [actionHistory |-> Append(state.actionHistory, action),
                           redoStack |-> <<>>,
                           activeActions |-> MapDelete(state.activeActions, socketId)]],
                ret |-> <<action>>]
       ELSE [rs |-> rs1, ret |-> <<>>]

\* addUserEvent that, for a socket with no active action, pushes the event
\* onto the last action of the history.
addUserEvent_IntoHistory(rs, roomName, socketId, data) ==
    LET rs1 == getRoomState(rs, roomName)
        state == rs1[roomName]
        n == Len(state.actionHistory)
    IN IF socketId \in DOMAIN state.activeActions
       THEN [rs1 EXCEPT ![roomName].activeActions[socketId].events =
                Append(state.activeActions[socketId].events, data)]
       ELSE IF n > 0
            THEN [rs1 EXCEPT ![roomName].actionHistory[n].events =
                     Append(state.actionHistory[n].events, data)]
            ELSE rs1

\* addUserEvent with events.unshift(data) for events.push(data).
addUserEvent_Unshift(rs, roomName, socketId, data) ==
    LET rs1 == getRoomState(rs, roomName)
        state == rs1[roomName]
    IN IF socketId \in DOMAIN state.activeActions
       THEN [rs1 EXCEPT ![roomName].activeActions[socketId].events =
                <<data>> \o state.activeActions[socketId].events]
       ELSE rs1

addUserEvent(rs, roomName, socketId, data) ==
    LET rs1 == getRoomState(rs, roomName)
        state == rs1[roomName]
    IN IF socketId \in DOMAIN state.activeActions
       THEN [rs1 EXCEPT ![roomName].activeActions[socketId].events =
                Append(state.activeActions[socketId].events, data)]
       ELSE rs1

\* performUndo with actionHistory.shift() for actionHistory.pop().
performUndo_Shift(rs, roomName) ==
    LET rs1 == getRoomState(rs, roomName)
        state == rs1[roomName]
    IN IF Len(state.actionHistory) > 0
       THEN LET actionToUndo == Head(state.actionHistory)
            IN [rs |-> [rs1 EXCEPT ![roomName] =
                          [state EXCEPT !.actionHistory = Tail(state.actionHistory),
                                        !.redoStack = Append(state.redoStack, actionToUndo)]],
                ret |-> <<actionToUndo>>]
       ELSE [rs |-> rs1, ret |-> <<>>]

\* performUndo without the pop: the action is pushed onto redoStack and
\* stays in actionHistory.
performUndo_Copy(rs, roomName) ==
    LET rs1 == getRoomState(rs, roomName)
        state == rs1[roomName]
    IN IF Len(state.actionHistory) > 0
       THEN LET actionToUndo == Last(state.actionHistory)
            IN [rs |-> [rs1 EXCEPT ![roomName] =
                          [state EXCEPT !.redoStack = Append(state.redoStack, actionToUndo)]],
                ret |-> <<actionToUndo>>]
       ELSE [rs |-> rs1, ret |-> <<>>]

performUndo(rs, roomName) ==
    LET rs1 == getRoomState(rs, roomName)
        state == rs1[roomName]
    IN IF Len(state.actionHistory) > 0
       THEN LET actionToUndo == Last(state.actionHistory)
            IN [rs |-> [rs1 EXCEPT ![roomName] =
                          [state EXCEPT !.actionHistory = Front(state.actionHistory),
                                        !.redoStack = Append(state.redoStack, actionToUndo)]],
                ret |-> <<actionToUndo>>]
       ELSE [rs |-> rs1, ret |-> <<>>]

\* performRedo with redoStack.shift() for redoStack.pop().
performRedo_Shift(rs, roomName) ==
    LET rs1 == getRoomState(rs, roomName)
        state == rs1[roomName]
    IN IF Len(state.redoStack) > 0
       THEN LET actionToRedo == Head(state.redoStack)
            IN [rs |-> [rs1 EXCEPT ![roomName] =
                          [state EXCEPT !.redoStack = Tail(state.redoStack),
                                        !.actionHistory = Append(state.actionHistory, actionToRedo)]],
                ret |-> <<actionToRedo>>]
       ELSE [rs |-> rs1, ret |-> <<>>]

performRedo(rs, roomName) ==
    LET rs1 == getRoomState(rs, roomName)
        state == rs1[roomName]
    IN IF Len(state.redoStack) > 0
       THEN LET actionToRedo == Last(state.redoStack)
            IN [rs |-> [rs1 EXCEPT ![roomName] =
                          [state EXCEPT !.redoStack = Front(state.redoStack),
                                        !.actionHistory = Append(state.actionHistory, actionToRedo)]],
                ret |-> <<actionToRedo>>]
       ELSE [rs |-> rs1, ret |-> <<>>]

getActionHistory(rs, roomName) ==
    getRoomState(rs, roomName)[roomName].actionHistory

RECURSIVE clearFrom(_, _, _)
\* The loop of clearActiveAction over roomStates.values(), in insertion
\* order: delete from the first room that holds the socket, then break.
clearFrom(rs, ord, socketId) ==
    IF ord = <<>> THEN rs
    ELSE IF socketId \in DOMAIN rs[Head(ord)].activeActions
         THEN [rs EXCEPT ![Head(ord)].activeActions =
                  MapDelete(rs[Head(ord)].activeActions, socketId)]
         ELSE clearFrom(rs, Tail(ord), socketId)

\* clearActiveAction with the `break` outside the `if`: only the first room
\* of the map is looked at.
clearActiveAction_FirstRoom(rs, ord, socketId) ==
    IF ord = <<>> THEN rs
    ELSE IF socketId \in DOMAIN rs[Head(ord)].activeActions
         THEN [rs EXCEPT ![Head(ord)].activeActions =
                  MapDelete(rs[Head(ord)].activeActions, socketId)]
         ELSE rs

\* clearActiveAction that empties activeActions of every room.
clearActiveAction_AllSockets(rs, ord, socketId) ==
    [r \in DOMAIN rs |-> [rs[r] EXCEPT !.activeActions = <<>>]]

clearActiveAction(rs, ord, socketId) == clearFrom(rs, ord, socketId)

(* --------------------------- server.ts --------------------------------- *)
\* The sockets joined to a room (socket.join at connect, left at close).
Members(roomName) ==
    {u \in Sockets : conn[u] = "connected" /\ socketRoom[u] = roomName}

\* socket.emit(msg): to one connection.
EmitToSocket(ch, s, msg) == [ch EXCEPT ![s] = Append(ch[s], msg)]

\* An emit that overtakes the messages already queued for a connection.
EmitToRoom_Prepend(ch, members, msg) ==
    [u \in Sockets |-> IF u \in members THEN <<msg>> \o ch[u] ELSE ch[u]]

\* io.emit(msg) for io.to(roomName).emit(msg): to every open connection.
EmitToRoom_Everyone(ch, members, msg) ==
    [u \in Sockets |-> IF conn[u] = "connected" THEN Append(ch[u], msg) ELSE ch[u]]

\* io.to(roomName).emit(msg): to every member of the room, the sender included.
EmitToRoom(ch, members, msg) ==
    [u \in Sockets |-> IF u \in members THEN Append(ch[u], msg) ELSE ch[u]]

\* socket.broadcast.to(roomName).emit with io.to(roomName).emit in its place:
\* the sender receives the message too.
BroadcastToRoom_WithSender(ch, members, s, msg) == EmitToRoom(ch, members, msg)

\* socket.broadcast.to(roomName).emit(msg): to every member but the sender.
BroadcastToRoom(ch, members, s, msg) == EmitToRoom(ch, members \ {s}, msg)

\* Room for one more message on each of these connections (model bound).
CanEmit(recipients) == \A u \in recipients : Len(chan[u]) < MaxChan

\* The state of a room as a handler finds it (blank when not yet created).
RoomBefore(roomName) == getRoomState(roomStates, roomName)[roomName]

\* The sockets connected before s are no longer new (ids follow the order
\* of connection).
ConnectsInOrder(s) ==
    \A i \in 1..Len(SocketOrder) :
        SocketOrder[i] = s =>
            \A j \in 1..(i - 1) : conn[SocketOrder[j]] # "new"

\* The connection handler with every other active user listed in the
\* welcome (no `socketIdsInRoom.has(user.id)`).
HandleConnection_AllUsers(s, roomName) ==
    /\ conn[s] = "new"
    /\ ConnectsInOrder(s)
    /\ CanEmit(Members(roomName))
    /\ LET others == Members(roomName)
           users == activeUsers \cup {s}
           socketIdsInRoom == others \cup {s}
           othersInRoom == {u \in users : u # s}
           welcome == [type |-> "welcome", self |-> s, others |-> othersInRoom]
           joined == [type |-> "new-user-connected", user |-> s]
           redraw == [type |-> "global-redraw",
                      history |-> getActionHistory(roomStates, roomName)]
       IN /\ conn' = [conn EXCEPT ![s] = "connected"]
          /\ socketRoom' = [socketRoom EXCEPT ![s] = roomName]
          /\ activeUsers' = users
          /\ chan' = EmitToSocket(
                        BroadcastToRoom(EmitToSocket(chan, s, welcome),
                                        socketIdsInRoom, s, joined),
                        s, redraw)
          /\ roomStates' = getRoomState(roomStates, roomName)
          /\ roomOrder' = orderAfter(roomStates, roomOrder, roomName)
          /\ recvPos' = [recvPos EXCEPT ![s] = Len(serverLog[roomName])]
    /\ UNCHANGED <<now, localActionHistory, selfUser, cursors, nextObj,
                   sentStroke, serverLog, discarded>>

\* io.on('connection'): join the room, register the user, welcome the new
\* socket, tell the others, send the room's history.
HandleConnection(s, roomName) ==
    /\ conn[s] = "new"
    /\ ConnectsInOrder(s)
    /\ CanEmit(Members(roomName))
    /\ LET others == Members(roomName)
           users == activeUsers \cup {s}
           socketIdsInRoom == others \cup {s}
           othersInRoom == {u \in users : u \in socketIdsInRoom /\ u # s}
           welcome == [type |-> "welcome", self |-> s, others |-> othersInRoom]
           joined == [type |-> "new-user-connected", user |-> s]
           redraw == [type |-> "global-redraw",
                      history |-> getActionHistory(roomStates, roomName)]
       IN /\ conn' = [conn EXCEPT ![s] = "connected"]
          /\ socketRoom' = [socketRoom EXCEPT ![s] = roomName]
          /\ activeUsers' = users
          /\ chan' = EmitToSocket(
                        BroadcastToRoom(EmitToSocket(chan, s, welcome),
                                        socketIdsInRoom, s, joined),
                        s, redraw)
          /\ roomStates' = getRoomState(roomStates, roomName)
          /\ roomOrder' = orderAfter(roomStates, roomOrder, roomName)
          /\ recvPos' = [recvPos EXCEPT ![s] = Len(serverLog[roomName])]
    /\ UNCHANGED <<now, localActionHistory, selfUser, cursors, nextObj,
                   sentStroke, serverLog, discarded>>

\* socket.on('start-drawing'); t is what Date.now() returns.
HandleStartDrawing(s, t) ==
    /\ conn[s] = "connected"
    /\ nextObj < MaxActions
    /\ t >= now
    /\ now' = t
    /\ LET roomName == socketRoom[s]
           startEvent == Segment(s, 1)
       IN /\ CanEmit(Members(roomName) \ {s})
          /\ roomStates' = startUserAction(roomStates, roomName, s, startEvent,
                                           t, nextObj + 1)
          /\ roomOrder' = orderAfter(roomStates, roomOrder, roomName)
          /\ chan' = BroadcastToRoom(chan, Members(roomName), s,
                                     [type |-> "draw-event", data |-> startEvent])
          /\ sentStroke' = [sentStroke EXCEPT ![s] = <<startEvent>>]
    /\ nextObj' = nextObj + 1
    /\ UNCHANGED <<activeUsers, conn, socketRoom, localActionHistory,
                   selfUser, cursors, serverLog, recvPos, discarded>>

\* socket.on('stop-drawing')
HandleStopDrawing(s) ==
    /\ conn[s] = "connected"
    /\ LET roomName == socketRoom[s]
           res == stopUserAction(roomStates, roomName, s)
           msg == [type |-> "action-committed", action |-> res.ret[1]]
       IN /\ res.ret # <<>> =>
                CanEmit(Members(roomName)) /\ Len(serverLog[roomName]) < MaxLog
          /\ roomStates' = res.rs
          /\ roomOrder' = orderAfter(roomStates, roomOrder, roomName)
          /\ IF res.ret # <<>>
             THEN /\ chan' = EmitToRoom(chan, Members(roomName), msg)
                  /\ serverLog' = [serverLog EXCEPT ![roomName] = Append(@, msg)]
             ELSE UNCHANGED <<chan, serverLog>>
    /\ sentStroke' = [sentStroke EXCEPT ![s] = <<>>]
    /\ UNCHANGED <<now, activeUsers, conn, socketRoom, localActionHistory,
                   selfUser, cursors, nextObj, recvPos, discarded>>

\* socket.on('draw-event'): the next segment of the sender's stroke.
HandleDrawEvent(s) ==
    /\ conn[s] = "connected"
    /\ LET roomName == socketRoom[s]
           active == RoomBefore(roomName).activeActions
           data == Segment(s, Len(sentStroke[s]) + 1)
       IN /\ s \in DOMAIN active => Len(active[s].events) < MaxEvents
          /\ CanEmit(Members(roomName) \ {s})
          /\ roomStates' = addUserEvent(roomStates, roomName, s, data)
          /\ roomOrder' = orderAfter(roomStates, roomOrder, roomName)
          /\ chan' = BroadcastToRoom(chan, Members(roomName), s,
                                     [type |-> "draw-event", data |-> data])
          /\ sentStroke' = [sentStroke EXCEPT ![s] =
                              IF @ = <<>> THEN <<>> ELSE Append(@, data)]
    /\ UNCHANGED <<now, activeUsers, conn, socketRoom, localActionHistory,
                   selfUser, cursors, nextObj, serverLog, recvPos, discarded>>

\* The undo handler with socket.broadcast.to(room) for io.to(room): the
\* requester is left out.
HandleUndo_Broadcast(s) ==
    /\ conn[s] = "connected"
    /\ LET roomName == socketRoom[s]
           res == performUndo(roomStates, roomName)
           msg == [type |-> "perform-undo", actionId |-> res.ret[1].id]
       IN /\ res.ret # <<>> =>
                CanEmit(Members(roomName)) /\ Len(serverLog[roomName]) < MaxLog
          /\ roomStates' = res.rs
          /\ roomOrder' = orderAfter(roomStates, roomOrder, roomName)
          /\ IF res.ret # <<>>
             THEN /\ chan' = BroadcastToRoom(chan, Members(roomName), s, msg)
                  /\ serverLog' = [serverLog EXCEPT ![roomName] = Append(@, msg)]
             ELSE UNCHANGED <<chan, serverLog>>
    /\ UNCHANGED <<now, activeUsers, conn, socketRoom, localActionHistory,
                   selfUser, cursors, nextObj, sentStroke, recvPos, discarded>>

\* The undo handler without `if (undoneAction)`: perform-undo is emitted
\* with the id of the action when there is one, with no id otherwise.
HandleUndo_Unguarded(s) ==
    /\ conn[s] = "connected"
    /\ LET roomName == socketRoom[s]
           res == performUndo(roomStates, roomName)
           msg == [type |-> "perform-undo",
                   actionId |-> IF res.ret # <<>> THEN res.ret[1].id ELSE <<>>]
       IN /\ CanEmit(Members(roomName))
          /\ Len(serverLog[roomName]) < MaxLog
          /\ roomStates' = res.rs
          /\ roomOrder' = orderAfter(roomStates, roomOrder, roomName)
          /\ chan' = EmitToRoom(chan, Members(roomName), msg)
          /\ serverLog' = [serverLog EXCEPT ![roomName] = Append(@, msg)]
    /\ UNCHANGED <<now, activeUsers, conn, socketRoom, localActionHistory,
                   selfUser, cursors, nextObj, sentStroke, recvPos, discarded>>

\* socket.on('undo')
HandleUndo(s) ==
    /\ conn[s] = "connected"
    /\ LET roomName == socketRoom[s]
           res == performUndo(roomStates, roomName)
           msg == [type |-> "perform-undo", actionId |-> res.ret[1].id]
       IN /\ res.ret # <<>> =>
                CanEmit(Members(roomName)) /\ Len(serverLog[roomName]) < MaxLog
          /\ roomStates' = res.rs
          /\ roomOrder' = orderAfter(roomStates, roomOrder, roomName)
          /\ IF res.ret # <<>>
             THEN /\ chan' = EmitToRoom(chan, Members(roomName), msg)
                  /\ serverLog' = [serverLog EXCEPT ![roomName] = Append(@, msg)]
             ELSE UNCHANGED <<chan, serverLog>>
    /\ UNCHANGED <<now, activeUsers, conn, socketRoom, localActionHistory,
                   selfUser, cursors, nextObj, sentStroke, recvPos, discarded>>

\* socket.on('redo')
HandleRedo(s) ==
    /\ conn[s] = "connected"
    /\ LET roomName == socketRoom[s]
           res == performRedo(roomStates, roomName)
           msg == [type |-> "perform-redo", action |-> res.ret[1]]
       IN /\ res.ret # <<>> =>
                CanEmit(Members(roomName)) /\ Len(serverLog[roomName]) < MaxLog
          /\ roomStates' = res.rs
          /\ roomOrder' = orderAfter(roomStates, roomOrder, roomName)
          /\ IF res.ret # <<>>
             THEN /\ chan' = EmitToRoom(chan, Members(roomName), msg)
                  /\ serverLog' = [serverLog EXCEPT ![roomName] = Append(@, msg)]
             ELSE UNCHANGED <<chan, serverLog>>
    /\ UNCHANGED <<now, activeUsers, conn, socketRoom, localActionHistory,
                   selfUser, cursors, nextObj, sentStroke, recvPos, discarded>>

\* socket.on('cursor-move'): the position is relayed, tagged with the
\* sender's id, to the other members of the room.  The coordinates are not
\* followed: the client only stores them in the cursor it already knows.
HandleCursorMove(s) ==
    /\ conn[s] = "connected"
    /\ LET roomName == socketRoom[s]
       IN /\ Members(roomName) \ {s} # {}
          /\ CanEmit(Members(roomName) \ {s})
          /\ chan' = BroadcastToRoom(chan, Members(roomName), s,
                                     [type |-> "cursor-move", id |-> s])
    /\ UNCHANGED <<now, roomStates, roomOrder, activeUsers, conn, socketRoom,
                   localActionHistory, selfUser, cursors, nextObj, sentStroke,
                   serverLog, recvPos, discarded>>

\* The objects a socket has in progress, in any room.
ActiveObjects(s) ==
    {roomStates[r].activeActions[s].obj :
        r \in {q \in DOMAIN roomStates : s \in DOMAIN roomStates[q].activeActions}}

\* socket.on('disconnect'): the socket has left its room when this runs.
\* The client of a closed connection is followed no further: its channel
\* and its mirror are dropped.
HandleDisconnect(s) ==
    /\ conn[s] = "connected"
    /\ LET roomName == socketRoom[s]
           remaining == Members(roomName) \ {s}
       IN /\ CanEmit(remaining)
          /\ activeUsers' = activeUsers \ {s}
          /\ roomStates' = clearActiveAction(roomStates, roomOrder, s)
          /\ chan' = [EmitToRoom(chan, remaining,
                                 [type |-> "user-disconnected", id |-> s])
                      EXCEPT ![s] = <<>>]
    /\ conn' = [conn EXCEPT ![s] = "closed"]
    /\ discarded' = discarded \cup ActiveObjects(s)
    /\ sentStroke' = [sentStroke EXCEPT ![s] = <<>>]
    /\ localActionHistory' = [localActionHistory EXCEPT ![s] = <<>>]
    /\ selfUser' = [selfUser EXCEPT ![s] = NoSocket]
    /\ cursors' = [cursors EXCEPT ![s] = {}]
    /\ recvPos' = [recvPos EXCEPT ![s] = 0]
    /\ UNCHANGED <<now, roomOrder, socketRoom, nextObj, serverLog>>

(* ------------------- client: main.ts, websocket.ts --------------------- *)
\* setHistory: the mirror is replaced by the history received.
setHistory(local, history) == history

\* addCommittedAction: localActionHistory.push(action)
addCommittedAction(local, action) == Append(local, action)

\* undoActionById: every entry with that id is filtered out.
undoActionById(local, actionId) == SelectIdNot(local, actionId)

\* redoAction: localActionHistory.push(action)
redoAction(local, action) == Append(local, action)

\* The mirror after the client has processed one message.  The listener of
\* perform-clear calls the eighth argument of registerSocketEvents; the page
\* passes seven, so the call of `undefined` throws and the listener ends
\* with nothing changed.
MirrorAfter(local, msg) ==
    CASE msg.type = "global-redraw" -> setHistory(local, msg.history)
      [] msg.type = "action-committed" -> addCommittedAction(local, msg.action)
      [] msg.type = "perform-undo" -> undoActionById(local, msg.actionId)
      [] msg.type = "perform-redo" -> redoAction(local, msg.action)
      [] OTHER -> local

\* The known other users after one message (welcome, new-user-connected,
\* user-disconnected handlers of registerSocketEvents).
CursorsAfter(known, msg) ==
    CASE msg.type = "welcome" -> msg.others
      [] msg.type = "new-user-connected" -> known \cup {msg.user}
      [] msg.type = "user-disconnected" -> known \ {msg.id}
      [] OTHER -> known

\* The notifications a client counts against the server's log.
IsNotification(msg) ==
    msg.type \in {"action-committed", "perform-undo", "perform-redo"}

\* The client of connection s processes the oldest message sent to it.
Deliver(s) ==
    /\ conn[s] = "connected"
    /\ chan[s] # <<>>
    /\ LET msg == Head(chan[s])
       IN /\ localActionHistory' =
                [localActionHistory EXCEPT ![s] = MirrorAfter(@, msg)]
          /\ cursors' = [cursors EXCEPT ![s] = CursorsAfter(@, msg)]
          /\ selfUser' = [selfUser EXCEPT ![s] =
                            IF msg.type = "welcome" THEN msg.self ELSE @]
          /\ recvPos' = [recvPos EXCEPT ![s] =
                            IF IsNotification(msg) THEN @ + 1 ELSE @]
    /\ chan' = [chan EXCEPT ![s] = Tail(@)]
    /\ UNCHANGED <<now, roomStates, roomOrder, activeUsers, conn, socketRoom,
                   nextObj, sentStroke, serverLog, discarded>>

(* ------------- client rendering: main.ts, canvas.ts -------------------- *)
\* The canvas is a raster.  The k-th segment of a stroke covers the pixel k
\* in the colour of its user, so the strokes of two users overlap and the
\* raster depends on the order in which segments are painted.
Pixels == 1..MaxEvents

Transparent == "none"

\* The canvas of a page that has drawn nothing.
BlankCanvas == [p \in Pixels |-> Transparent]

INITIAL_STATE_KEY == <<"initial">>

\* The cache after the buildCacheAndRedraw() of the page load.
LoadedCache == (INITIAL_STATE_KEY :> BlankCanvas)

\* canvas.ts performDraw: one segment is stroked onto the canvas.
performDraw(cv, data) == [cv EXCEPT ![data.seg] = data.color]

RECURSIVE drawEvents(_, _)
\* for (const event of action.events) performDraw(event)
drawEvents(cv, events) ==
    IF events = <<>> THEN cv
    ELSE drawEvents(performDraw(cv, Head(events)), Tail(events))

RECURSIVE redrawActions(_, _, _)
\* The loop of buildCacheAndRedraw: each action is painted and the canvas
\* after it is stored under its id.
redrawActions(actions, cv, cache) ==
    IF actions = <<>> THEN [canvas |-> cv, cache |-> cache]
    ELSE LET stateAfterAction == drawEvents(cv, Head(actions).events)
         IN redrawActions(Tail(actions), stateAfterAction,
                          MapSet(cache, Head(actions).id, stateAfterAction))

\* buildCacheAndRedraw without `stateCache.clear()`.
buildCacheAndRedraw_KeepCache(local, cv, cache) ==
    LET initialState == [p \in DOMAIN cv |-> Transparent]
    IN redrawActions(local, initialState,
                     MapSet(cache, INITIAL_STATE_KEY, initialState))

\* buildCacheAndRedraw: clearRect, stateCache.clear(), the blank state is
\* stored under INITIAL_STATE_KEY, then the whole local history is painted.
buildCacheAndRedraw(local, cv, cache) ==
    LET initialState == [p \in DOMAIN cv |-> Transparent]
    IN redrawActions(local, initialState,
                     MapSet(<<>>, INITIAL_STATE_KEY, initialState))

\* setHistory, as seen on the canvas and in the cache.
setHistoryView(local, cv, cache, history) ==
    buildCacheAndRedraw(setHistory(local, history), cv, cache)

\* addCommittedAction without `stateCache.set(action.id, newState)`.
addCommittedActionView_NoSnapshot(cv, cache, action) ==
    [canvas |-> cv, cache |-> cache]

\* addCommittedAction: nothing is painted ("the drawing already happened
\* live"); the canvas as it is now is stored under the id of the action.
addCommittedActionView(cv, cache, action) ==
    [canvas |-> cv, cache |-> MapSet(cache, action.id, cv)]

\* undoActionById without `ctx.putImageData(stateToRestore, 0, 0)`.
undoActionByIdView_NoRestore(local, cv, cache, actionId) ==
    LET rest == undoActionById(local, actionId)
        lastActionId == IF Len(rest) > 0 THEN Last(rest).id
                        ELSE INITIAL_STATE_KEY
    IN IF lastActionId \in DOMAIN cache
       THEN [canvas |-> cv, cache |-> cache]
       ELSE buildCacheAndRedraw(rest, cv, cache)

\* undoActionById: the snapshot of the new last action (or the initial one)
\* is put back; without one the canvas is rebuilt.
undoActionByIdView(local, cv, cache, actionId) ==
    LET rest == undoActionById(local, actionId)
        lastActionId == IF Len(rest) > 0 THEN Last(rest).id
                        ELSE INITIAL_STATE_KEY
    IN IF lastActionId \in DOMAIN cache
       THEN [canvas |-> cache[lastActionId], cache |-> cache]
       ELSE buildCacheAndRedraw(rest, cv, cache)

\* redoAction without `ctx.putImageData(prevState, 0, 0)`: the action is
\* painted over the canvas as it is.
redoActionView_NoRestore(local, cv, cache, action) ==
    LET all == redoAction(local, action)
        previousActionId == IF Len(all) > 1 THEN all[Len(all) - 1].id
                            ELSE INITIAL_STATE_KEY
    IN IF previousActionId \in DOMAIN cache
       THEN LET newState == drawEvents(cv, action.events)
            IN [canvas |-> newState, cache |-> MapSet(cache, action.id, newState)]
       ELSE buildCacheAndRedraw(all, cv, cache)

\* redoAction: the snapshot before the action is put back, the action is
\* painted over it and the result is stored under its id; without a
\* snapshot the canvas is rebuilt.
redoActionView(local, cv, cache, action) ==
    LET all == redoAction(local, action)
        previousActionId == IF Len(all) > 1 THEN all[Len(all) - 1].id
                            ELSE INITIAL_STATE_KEY
    IN IF previousActionId \in DOMAIN cache
       THEN LET newState == drawEvents(cache[previousActionId], action.events)
            IN [canvas |-> newState, cache |-> MapSet(cache, action.id, newState)]
       ELSE buildCacheAndRedraw(all, cv, cache)

\* The canvas and the cache after the client has processed one message
\* (listeners of registerSocketEvents; the listener of perform-clear throws
\* before it has changed anything).
RenderAfter(local, cv, cache, msg) ==
    CASE msg.type = "draw-event" ->
            [canvas |-> performDraw(cv, msg.data), cache |-> cache]
      [] msg.type = "global-redraw" ->
            setHistoryView(local, cv, cache, msg.history)
      [] msg.type = "action-committed" ->
            addCommittedActionView(cv, cache, msg.action)
      [] msg.type = "perform-undo" ->
            undoActionByIdView(local, cv, cache, msg.actionId)
      [] msg.type = "perform-redo" ->
            redoActionView(local, cv, cache, msg.action)
      [] OTHER -> [canvas |-> cv, cache |-> cache]

\* main.ts isDrawing: set by startDrawing, reset by stopDrawing.
isDrawing(s) == sentStroke[s] # <<>>

\* main.ts startDrawing, draw: the client paints its own segment when it
\* sends it.
DrawLocally(s, data) ==
    /\ canvas' = [canvas EXCEPT ![s] = performDraw(@, data)]
    /\ UNCHANGED stateCache

\* mousedown: the segment is sent (start-drawing) and painted locally.
ClientStartDrawing(s, t) ==
    /\ HandleStartDrawing(s, t)
    /\ DrawLocally(s, Segment(s, 1))

\* mousemove: while drawing, the segment is sent (draw-event) and painted
\* locally.
ClientDraw(s) ==
    /\ isDrawing(s)
    /\ HandleDrawEvent(s)
    /\ DrawLocally(s, Segment(s, Len(sentStroke[s]) + 1))

\* mouseup, mouseout: while drawing, stop-drawing is sent.
ClientStopDrawing(s) ==
    /\ isDrawing(s)
    /\ HandleStopDrawing(s)
    /\ UNCHANGED rendering

\* The client processes its oldest message: mirror, canvas and cache.
ClientDeliver(s) ==
    /\ Deliver(s)
    /\ LET after == RenderAfter(localActionHistory[s], canvas[s],
                                stateCache[s], Head(chan[s]))
       IN /\ canvas' = [canvas EXCEPT ![s] = after.canvas]
          /\ stateCache' = [stateCache EXCEPT ![s] = after.cache]

\* The page of a closed connection is followed no further.
ClientDisconnect(s) ==
    /\ HandleDisconnect(s)
    /\ canvas' = [canvas EXCEPT ![s] = BlankCanvas]
    /\ stateCache' = [stateCache EXCEPT ![s] = LoadedCache]

(* ------------- draw-shape and clear-canvas (specification) ------------- *)
\* The client sends draw-shape and clear-canvas (websocket.ts emitDrawShape,
\* emitClearCanvas); the handlers that receive them are modelled from the
\* specification (4.1 commitShape, 4.2 Protocol Router).

\* The DrawEventData of a rectangle drawn by the client of s: the tool tag
\* and the corner the pointer was released at (getDrawData, stopDrawing).
ShapeData(s, k) == [color |-> s, seg |-> k, tool |-> "rectangle"]

\* commitShape(room, action): appends the action to actionHistory, clears
\* redoStack, returns the action unchanged.
commitShape(rs, roomName, action) ==
    LET rs1 == getRoomState(rs, roomName)
        state == rs1[roomName]
    IN [rs |-> [rs1 EXCEPT ![roomName] =
                  [state EXCEPT !.actionHistory = Append(state.actionHistory, action),
                                !.redoStack = <<>>]],
        ret |-> <<action>>]

\* clear-canvas: actionHistory and redoStack of the room are emptied.
clearHistory(rs, roomName) ==
    LET rs1 == getRoomState(rs, roomName)
    IN [rs1 EXCEPT ![roomName].actionHistory = <<>>,
                   ![roomName].redoStack = <<>>]

\* draw-shape: a one-event action is built from the event received and the
\* time of the commit, committed, and announced to everyone in the room.
HandleDrawShape(s, k, t) ==
    /\ conn[s] = "connected"
    /\ nextObj < MaxActions
    /\ t >= now
    /\ now' = t
    /\ LET roomName == socketRoom[s]
           action == newAction(s, t, ShapeData(s, k), nextObj + 1)
           res == commitShape(roomStates, roomName, action)
           msg == [type |-> "action-committed", action |-> res.ret[1]]
       IN /\ CanEmit(Members(roomName))
          /\ Len(serverLog[roomName]) < MaxLog
          /\ roomStates' = res.rs
          /\ roomOrder' = orderAfter(roomStates, roomOrder, roomName)
          /\ chan' = EmitToRoom(chan, Members(roomName), msg)
          /\ serverLog' = [serverLog EXCEPT ![roomName] = Append(@, msg)]
    /\ nextObj' = nextObj + 1
    /\ UNCHANGED <<activeUsers, conn, socketRoom, localActionHistory,
                   selfUser, cursors, sentStroke, recvPos, discarded>>

\* clear-canvas: the room's history is wiped and "clear performed" is
\* announced to everyone in the room.
HandleClearCanvas(s) ==
    /\ conn[s] = "connected"
    /\ LET roomName == socketRoom[s]
       IN /\ CanEmit(Members(roomName))
          /\ roomStates' = clearHistory(roomStates, roomName)
          /\ roomOrder' = orderAfter(roomStates, roomOrder, roomName)
          /\ chan' = EmitToRoom(chan, Members(roomName), [type |-> "perform-clear"])
    /\ UNCHANGED <<now, activeUsers, conn, socketRoom, localActionHistory,
                   selfUser, cursors, nextObj, sentStroke, serverLog, recvPos,
                   discarded>>

(* ------------- the page with the rectangle tool (src/unnamed/part_001) -- *)
\* The page of part_001 paints a rectangle when the pointer is released and
\* sends it whole (draw-shape); on action-committed it tells its own shapes
\* from those of the others by the text of the action's id.

\* socket.id as text.  The ids socket.io hands out are 20 characters of the
\* URL-safe base64 alphabet (letters, digits, "_" and "-"): one id without a
\* "-" and one with a "-" stand for them.
SocketIdText(s) ==
    IF s = SocketOrder[1] THEN <<"a", "b">> ELSE <<"c", "-", "d">>

\* `${socketId}-${Date.now()}`: the text of an action's id.
ActionIdText(id) == SocketIdText(id[1]) \o <<"-", ToString(id[2])>>

RECURSIVE splitFirst(_)
\* text.split('-')[0]: the text before the first "-".
splitFirst(text) ==
    IF text = <<>> \/ Head(text) = "-" THEN <<>>
    ELSE <<Head(text)>> \o splitFirst(Tail(text))

\* action.events.length === 1 && action.events[0].tool === 'rectangle'
isShape(action) ==
    /\ Len(action.events) = 1
    /\ "tool" \in DOMAIN action.events[1]
    /\ action.events[1].tool = "rectangle"

\* const senderId = action.id.split('-')[0]
senderId(action) == splitFirst(ActionIdText(action.id))

\* performDrawRect: the outline between the corner the pointer went down at
\* (the origin of the raster) and the corner it was released at.
performDrawRect(cv, data) ==
    [p \in DOMAIN cv |-> IF p <= data.seg THEN data.color ELSE cv[p]]

\* The branch of buildCacheAndRedraw and redoAction: a shape is painted by
\* performDrawRect, a stroke event by event.
paintAction(cv, action) ==
    IF isShape(action) THEN performDrawRect(cv, action.events[1])
    ELSE drawEvents(cv, action.events)

RECURSIVE redrawActionsShapes(_, _, _)
\* The loop of part_001's buildCacheAndRedraw.
redrawActionsShapes(actions, cv, cache) ==
    IF actions = <<>> THEN [canvas |-> cv, cache |-> cache]
    ELSE LET stateAfterAction == paintAction(cv, Head(actions))
         IN redrawActionsShapes(Tail(actions), stateAfterAction,
                                MapSet(cache, Head(actions).id, stateAfterAction))

\* part_001 buildCacheAndRedraw.
buildCacheAndRedrawShapes(local, cv, cache) ==
    LET initialState == [p \in DOMAIN cv |-> Transparent]
    IN redrawActionsShapes(local, initialState,
                           MapSet(<<>>, INITIAL_STATE_KEY, initialState))

\* part_001 addCommittedAction on the page of socket self: a shape whose
\* senderId is not socket.id is painted; the action is appended and the
\* canvas as it is then is stored under its id.
addCommittedActionShapes(self, cv, cache, action) ==
    LET painted == IF isShape(action) /\ senderId(action) # SocketIdText(self)
                   THEN performDrawRect(cv, action.events[1])
                   ELSE cv
    IN [canvas |-> painted, cache |-> MapSet(cache, action.id, painted)]

\* part_001 undoActionById.
undoActionByIdShapes(local, cv, cache, actionId) ==
    LET rest == undoActionById(local, actionId)
        lastActionId == IF Len(rest) > 0 THEN Last(rest).id
                        ELSE INITIAL_STATE_KEY
    IN IF lastActionId \in DOMAIN cache
       THEN [canvas |-> cache[lastActionId], cache |-> cache]
       ELSE buildCacheAndRedrawShapes(rest, cv, cache)

\* part_001 redoAction.
redoActionShapes(local, cv, cache, action) ==
    LET all == redoAction(local, action)
        previousActionId == IF Len(all) > 1 THEN all[Len(all) - 1].id
                            ELSE INITIAL_STATE_KEY
    IN IF previousActionId \in DOMAIN cache
       THEN LET newState == paintAction(cache[previousActionId], action)
            IN [canvas |-> newState, cache |-> MapSet(cache, action.id, newState)]
       ELSE buildCacheAndRedrawShapes(all, cv, cache)

\* The canvas and the cache of the page of socket self after it has
\* processed one message.
RenderAfterShapes(self, local, cv, cache, msg) ==
    CASE msg.type = "draw-event" ->
            [canvas |-> performDraw(cv, msg.data), cache |-> cache]
      [] msg.type = "global-redraw" ->
            buildCacheAndRedrawShapes(setHistory(local, msg.history), cv, cache)
      [] msg.type = "action-committed" ->
            addCommittedActionShapes(self, cv, cache, msg.action)
      [] msg.type = "perform-undo" ->
            undoActionByIdShapes(local, cv, cache, msg.actionId)
      [] msg.type = "perform-redo" ->
            redoActionShapes(local, cv, cache, msg.action)
      [] OTHER -> [canvas |-> cv, cache |-> cache]

\* mouseup with the rectangle tool: the shape is painted and sent whole.
ClientDrawShape(s, k, t) ==
    /\ ~isDrawing(s)
    /\ HandleDrawShape(s, k, t)
    /\ canvas' = [canvas EXCEPT ![s] = performDrawRect(@, ShapeData(s, k))]
    /\ UNCHANGED stateCache

\* The page processes its oldest message: mirror, canvas and cache.
ShapeClientDeliver(s) ==
    /\ Deliver(s)
    /\ LET after == RenderAfterShapes(s, localActionHistory[s], canvas[s],
                                      stateCache[s], Head(chan[s]))
       IN /\ canvas' = [canvas EXCEPT ![s] = after.canvas]
          /\ stateCache' = [stateCache EXCEPT ![s] = after.cache]

(* ------------- persistent drawing state (src/unnamed/part_008) --------- *)
\* The drawing state kept in a key-value store.  Its room map, its room
\* states and its operations on them are those of drawing-state.ts, statement
\* for statement; each operation is an async function that first awaits
\* getRoomState (which loads the room from the store when the map does not
\* hold it) and, after a commit, an undo or a redo, awaits saveRoomState.  In
\* SpecKV the variables roomStates, roomOrder, now and nextObj are those of
\* this module.  A call runs without interruption from one answer of the
\* store to its next request (microtasks of one turn of the event loop);
\* the store answers requests in any order, and may fail them.
MaxCalls == 3       \* calls of the persistent drawing state in one run

KVRooms == {"r1"}

\* An action committed by an earlier run of the server.
PriorAction(k) ==
    [id |-> <<"s0", k>>, events |-> <<Segment("s0", 1)>>, obj |-> 0 - k]

\* What the store may hold for a room when the server starts: nothing, or
\* the document an earlier run has left.
PriorDocs ==
    {<<>>,
     <<[actionHistory |-> <<PriorAction(1)>>, redoStack |-> <<PriorAction(2)>>]>>}

NoCall == [id |-> 0, op |-> "none", ret |-> <<>>]

\* The operations exported to the router.
KVOps == {"startUserAction", "addUserEvent", "stopUserAction",
          "performUndo", "performRedo", "getActionHistory"}

\* saveRoomState with `stateToSave = state`.
saveRoomState_WholeState(state) == state

\* saveRoomState: the document handed to kv.set.
saveRoomState(state) ==
    [actionHistory |-> state.actionHistory, redoStack |-> state.redoStack]

\* loadRoomState: <<the RoomState built from the document>>, or <<>> (null)
\* when the store holds none or the read has failed.
loadRoomState(loadedData) ==
    IF loadedData # <<>>
    THEN <<[actionHistory |-> loadedData[1].actionHistory,
            redoStack |-> loadedData[1].redoStack,
            activeActions |-> <<>>]>>
    ELSE <<>>

\* getRoomState after the await of loadRoomState: the state loaded, or a new
\* empty one, is put into the map under the room's name.
kvInstall(rs, roomName, loadedState) ==
    MapSet(rs, roomName,
           IF loadedState # <<>> THEN loadedState[1] ELSE BlankRoomState)

\* The body of an operation once it holds the room's state: the map
\* afterwards, the value to return and whether saveRoomState is awaited
\* before the return.
kvBody(op, rs, roomName, socketId, t, obj) ==
    CASE op = "startUserAction" ->
            [rs |-> startUserAction(rs, roomName, socketId,
                                    Segment(socketId, 1), t, obj),
             ret |-> <<>>, save |-> FALSE]
      [] op = "addUserEvent" ->
            LET active == rs[roomName].activeActions
                k == IF socketId \in DOMAIN active
                     THEN Len(active[socketId].events) + 1 ELSE 1
            IN [rs |-> addUserEvent(rs, roomName, socketId, Segment(socketId, k)),
                ret |-> <<>>, save |-> FALSE]
      [] op = "stopUserAction" ->
            LET res == stopUserAction(rs, roomName, socketId)
            IN [rs |-> res.rs, ret |-> res.ret, save |-> res.ret # <<>>]
      [] op = "performUndo" ->
            LET res == performUndo(rs, roomName)
            IN [rs |-> res.rs, ret |-> res.ret, save |-> res.ret # <<>>]
      [] op = "performRedo" ->
            LET res == performRedo(rs, roomName)
            IN [rs |-> res.rs, ret |-> res.ret, save |-> res.ret # <<>>]
      [] op = "getActionHistory" ->
            [rs |-> rs, ret |-> <<getActionHistory(rs, roomName)>>,
             save |-> FALSE]

\* kvFinish where performUndo does not call saveRoomState.
kvFinish_UndoNotSaved(call, rest, rs, t) ==
    LET res == kvBody(call.op, rs, call.room, call.sock, t, nextObj + 1)
    IN /\ roomStates' = res.rs
       /\ now' = IF call.op = "startUserAction" THEN t ELSE now
       /\ nextObj' = IF call.op = "startUserAction" THEN nextObj + 1 ELSE nextObj
       /\ IF res.save /\ call.op # "performUndo"
          THEN /\ kvWrites' = kvWrites \cup
                                {[call |-> call.id, room |-> call.room,
                                  doc |-> saveRoomState(res.rs[call.room])]}
               /\ kvCalls' = rest \cup
                               {[call EXCEPT !.pc = "save", !.ret = res.ret]}
               /\ UNCHANGED kvReturned
          ELSE /\ kvCalls' = rest
               /\ kvReturned' = [id |-> call.id, op |-> call.op, ret |-> res.ret]
               /\ UNCHANGED kvWrites

\* A call runs its body on the map rs (the room is in it).  When the body
\* saves, the document is handed to kv.set and the call waits for the
\* answer with its result in hand; otherwise it returns.
kvFinish(call, rest, rs, t) ==
    LET res == kvBody(call.op, rs, call.room, call.sock, t, nextObj + 1)
    IN /\ roomStates' = res.rs
       /\ now' = IF call.op = "startUserAction" THEN t ELSE now
       /\ nextObj' = IF call.op = "startUserAction" THEN nextObj + 1 ELSE nextObj
       /\ IF res.save
          THEN /\ kvWrites' = kvWrites \cup
                                {[call |-> call.id, room |-> call.room,
                                  doc |-> saveRoomState(res.rs[call.room])]}
               /\ kvCalls' = rest \cup
                               {[call EXCEPT !.pc = "save", !.ret = res.ret]}
               /\ UNCHANGED kvReturned
          ELSE /\ kvCalls' = rest
               /\ kvReturned' = [id |-> call.id, op |-> call.op, ret |-> res.ret]
               /\ UNCHANGED kvWrites

\* The inputs a call may be made with: a stroke is started while there is
\* room for one, an event is added while the stroke has room for one.
kvCanRun(op, rs, roomName, socketId, t) ==
    /\ op = "startUserAction" => nextObj < MaxActions /\ t >= now
    /\ op # "startUserAction" => t = now
    /\ op = "addUserEvent" =>
          \A r \in DOMAIN rs :
              socketId \in DOMAIN rs[r].activeActions
                  => Len(rs[r].activeActions[socketId].events) < MaxEvents

\* The router calls an exported operation.  getRoomState returns the state
\* of a room the map holds; for any other room kv.get is sent and the call
\* waits for the answer.
KVCall(op, roomName, socketId, t) ==
    /\ kvNextCall < MaxCalls
    /\ kvNextCall' = kvNextCall + 1
    /\ LET call == [id |-> kvNextCall + 1, op |-> op, room |-> roomName,
                    sock |-> socketId, pc |-> "load", ret |-> <<>>]
       IN IF roomName \in DOMAIN roomStates
          THEN /\ kvCanRun(op, roomStates, roomName, socketId, t)
               /\ kvFinish(call, kvCalls, roomStates, t)
               /\ UNCHANGED roomOrder
          ELSE /\ t = now
               /\ kvCalls' = kvCalls \cup {call}
               /\ UNCHANGED <<roomStates, roomOrder, now, nextObj, kvWrites,
                              kvReturned>>
    /\ UNCHANGED <<kvStore, kvFailed>>
    /\ UNCHANGED <<activeUsers, conn, socketRoom, chan, localActionHistory,
                   selfUser, cursors, sentStroke, serverLog, recvPos,
                   discarded, lastOp, rendering>>

\* KVLoaded with no try/catch in loadRoomState: the error of a failed kv.get
\* rejects the call; no room is created and nothing is returned.
KVLoaded_NoCatch(call, ok, t) ==
    /\ call \in kvCalls
    /\ call.pc = "load"
    /\ IF ok
       THEN LET loadedState == loadRoomState(kvStore[call.room])
                rs == kvInstall(roomStates, call.room, loadedState)
            IN /\ kvCanRun(call.op, rs, call.room, call.sock, t)
               /\ roomOrder' = orderAfter(roomStates, roomOrder, call.room)
               /\ kvFinish(call, kvCalls \ {call}, rs, t)
       ELSE /\ t = now
            /\ kvCalls' = kvCalls \ {call}
            /\ kvReturned' = [id |-> call.id, op |-> call.op, ret |-> <<>>]
            /\ UNCHANGED <<roomStates, roomOrder, now, nextObj, kvWrites>>
    /\ UNCHANGED <<kvStore, kvNextCall, kvFailed>>
    /\ UNCHANGED <<activeUsers, conn, socketRoom, chan, localActionHistory,
                   selfUser, cursors, sentStroke, serverLog, recvPos,
                   discarded, lastOp, rendering>>

\* The store answers the kv.get of a call (ok), or the read fails and
\* loadRoomState returns null.  getRoomState puts the state it has built
\* into the map and the call goes on with it.
KVLoaded(call, ok, t) ==
    /\ call \in kvCalls
    /\ call.pc = "load"
    /\ LET loadedState == loadRoomState(IF ok THEN kvStore[call.room] ELSE <<>>)
           rs == kvInstall(roomStates, call.room, loadedState)
       IN /\ kvCanRun(call.op, rs, call.room, call.sock, t)
          /\ roomOrder' = orderAfter(roomStates, roomOrder, call.room)
          /\ kvFinish(call, kvCalls \ {call}, rs, t)
    /\ UNCHANGED <<kvStore, kvNextCall, kvFailed>>
    /\ UNCHANGED <<activeUsers, conn, socketRoom, chan, localActionHistory,
                   selfUser, cursors, sentStroke, serverLog, recvPos,
                   discarded, lastOp, rendering>>

\* KVWriteDone with no try/catch in saveRoomState: the error of a failed
\* kv.set rejects the call, which returns no action.
KVWriteDone_NoCatch(w, ok) ==
    /\ w \in kvWrites
    /\ kvWrites' = kvWrites \ {w}
    /\ kvStore' = IF ok THEN [kvStore EXCEPT ![w.room] = <<w.doc>>] ELSE kvStore
    /\ kvFailed' = IF ok THEN kvFailed ELSE [kvFailed EXCEPT ![w.room] = TRUE]
    /\ LET waiting == {c \in kvCalls : c.id = w.call}
       IN /\ kvCalls' = kvCalls \ waiting
          /\ IF waiting # {}
             THEN LET c == CHOOSE c \in waiting : TRUE
                  IN kvReturned' = [id |-> c.id, op |-> c.op,
                                    ret |-> IF ok THEN c.ret ELSE <<>>]
             ELSE UNCHANGED kvReturned
    /\ UNCHANGED <<now, roomStates, roomOrder, nextObj, kvNextCall>>
    /\ UNCHANGED <<activeUsers, conn, socketRoom, chan, localActionHistory,
                   selfUser, cursors, sentStroke, serverLog, recvPos,
                   discarded, lastOp, rendering>>

\* The store answers a kv.set: the document is stored (ok), or the write
\* has failed and saveRoomState logs the error.  Either way the call that
\* awaits it returns its result.
KVWriteDone(w, ok) ==
    /\ w \in kvWrites
    /\ kvWrites' = kvWrites \ {w}
    /\ kvStore' = IF ok THEN [kvStore EXCEPT ![w.room] = <<w.doc>>] ELSE kvStore
    /\ kvFailed' = IF ok THEN kvFailed ELSE [kvFailed EXCEPT ![w.room] = TRUE]
    /\ LET waiting == {c \in kvCalls : c.id = w.call}
       IN /\ kvCalls' = kvCalls \ waiting
          /\ IF waiting # {}
             THEN LET c == CHOOSE c \in waiting : TRUE
                  IN kvReturned' = [id |-> c.id, op |-> c.op, ret |-> c.ret]
             ELSE UNCHANGED kvReturned
    /\ UNCHANGED <<now, roomStates, roomOrder, nextObj, kvNextCall>>
    /\ UNCHANGED <<activeUsers, conn, socketRoom, chan, localActionHistory,
                   selfUser, cursors, sentStroke, serverLog, recvPos,
                   discarded, lastOp, rendering>>

\* clearActiveAction(socketId): synchronous, over the rooms the map holds.
KVClearActiveAction(socketId) ==
    /\ roomStates' = clearActiveAction(roomStates, roomOrder, socketId)
    /\ UNCHANGED <<now, roomOrder, nextObj, persistence>>
    /\ UNCHANGED <<activeUsers, conn, socketRoom, chan, localActionHistory,
                   selfUser, cursors, sentStroke, serverLog, recvPos,
                   discarded, lastOp, rendering>>

(* ------------------------- specification ------------------------------- *)
NoOp == [op |-> "none", sock |-> NoSocket, room |-> NoRoom,
         ret |-> <<>>, pre |-> BlankRoomState]

\* What a handler saw and returned: the room's state before it ran and the
\* action the drawing-state operation returned (<<>> for undefined).
OpRecord(op, s, roomName, ret) ==
    [op |-> op, sock |-> s, room |-> roomName, ret |-> ret,
     pre |-> RoomBefore(roomName)]

\* No document, no call, no request.
InitPersistence ==
    /\ kvCalls = {}
    /\ kvWrites = {}
    /\ kvReturned = NoCall
    /\ kvNextCall = 0
    /\ kvFailed = [r \in KVRooms |-> FALSE]

Init ==
    /\ kvStore = [r \in KVRooms |-> <<>>]
    /\ InitPersistence
    /\ now = 0
    /\ roomStates = <<>>
    /\ roomOrder = <<>>
    /\ activeUsers = {}
    /\ conn = [s \in Sockets |-> "new"]
    /\ socketRoom = [s \in Sockets |-> NoRoom]
    /\ chan = [s \in Sockets |-> <<>>]
    /\ localActionHistory = [s \in Sockets |-> <<>>]
    /\ selfUser = [s \in Sockets |-> NoSocket]
    /\ cursors = [s \in Sockets |-> {}]
    /\ nextObj = 0
    /\ sentStroke = [s \in Sockets |-> <<>>]
    /\ serverLog = [r \in Rooms |-> <<>>]
    /\ recvPos = [s \in Sockets |-> 0]
    /\ discarded = {}
    /\ lastOp = NoOp
    /\ canvas = [s \in Sockets |-> BlankCanvas]
    /\ stateCache = [s \in Sockets |-> LoadedCache]

Next ==
    \/ \E s \in Sockets : \E roomName \in QueryRooms(s) :
            HandleConnection(s, roomName) /\ UNCHANGED <<lastOp, rendering, persistence>>
    \/ \E s \in Sockets, t \in Times :
            HandleStartDrawing(s, t) /\ UNCHANGED <<lastOp, rendering, persistence>>
    \/ \E s \in Sockets : HandleDrawEvent(s) /\ UNCHANGED <<lastOp, rendering, persistence>>
    \/ \E s \in Sockets : HandleStopDrawing(s) /\ UNCHANGED <<lastOp, rendering, persistence>>
    \/ \E s \in Sockets : HandleUndo(s) /\ UNCHANGED <<lastOp, rendering, persistence>>
    \/ \E s \in Sockets : HandleRedo(s) /\ UNCHANGED <<lastOp, rendering, persistence>>
    \/ \E s \in Sockets : HandleCursorMove(s) /\ UNCHANGED <<lastOp, rendering, persistence>>
    \/ \E s \in Sockets : HandleDisconnect(s) /\ UNCHANGED <<lastOp, rendering, persistence>>
    \/ \E s \in Sockets : Deliver(s) /\ UNCHANGED <<lastOp, rendering, persistence>>

Spec == Init /\ [][Next]_vars

NextTraced ==
    \/ \E s \in Sockets : \E roomName \in QueryRooms(s) :
            /\ HandleConnection(s, roomName)
            /\ lastOp' = OpRecord("connection", s, roomName, <<>>)
            /\ UNCHANGED <<rendering, persistence>>
    \/ \E s \in Sockets, t \in Times :
            /\ HandleStartDrawing(s, t)
            /\ lastOp' = OpRecord("start-drawing", s, socketRoom[s], <<>>)
            /\ UNCHANGED <<rendering, persistence>>
    \/ \E s \in Sockets :
            /\ HandleDrawEvent(s)
            /\ lastOp' = OpRecord("draw-event", s, socketRoom[s], <<>>)
            /\ UNCHANGED <<rendering, persistence>>
    \/ \E s \in Sockets :
            /\ HandleStopDrawing(s)
            /\ lastOp' = OpRecord("stop-drawing", s, socketRoom[s],
                                  stopUserAction(roomStates, socketRoom[s], s).ret)
            /\ UNCHANGED <<rendering, persistence>>
    \/ \E s \in Sockets :
            /\ HandleUndo(s)
            /\ lastOp' = OpRecord("undo", s, socketRoom[s],
                                  performUndo(roomStates, socketRoom[s]).ret)
            /\ UNCHANGED <<rendering, persistence>>
    \/ \E s \in Sockets :
            /\ HandleRedo(s)
            /\ lastOp' = OpRecord("redo", s, socketRoom[s],
                                  performRedo(roomStates, socketRoom[s]).ret)
            /\ UNCHANGED <<rendering, persistence>>
    \/ \E s \in Sockets :
            /\ HandleCursorMove(s)
            /\ lastOp' = OpRecord("cursor-move", s, socketRoom[s], <<>>)
            /\ UNCHANGED <<rendering, persistence>>
    \/ \E s \in Sockets :
            /\ HandleDisconnect(s)
            /\ lastOp' = OpRecord("disconnect", s, socketRoom[s], <<>>)
            /\ UNCHANGED <<rendering, persistence>>
    \/ \E s \in Sockets : Deliver(s) /\ UNCHANGED <<lastOp, rendering, persistence>>

SpecTraced == Init /\ [][NextTraced]_vars

\* The drawing protocol with the draw-shape and clear-canvas handlers (the
\* cursor relay, which touches no history, is left to Spec).
NextRouter ==
    \/ \E s \in Sockets : \E roomName \in QueryRooms(s) :
            HandleConnection(s, roomName) /\ UNCHANGED <<lastOp, rendering, persistence>>
    \/ \E s \in Sockets, t \in Times :
            HandleStartDrawing(s, t) /\ UNCHANGED <<lastOp, rendering, persistence>>
    \/ \E s \in Sockets : HandleDrawEvent(s) /\ UNCHANGED <<lastOp, rendering, persistence>>
    \/ \E s \in Sockets : HandleStopDrawing(s) /\ UNCHANGED <<lastOp, rendering, persistence>>
    \/ \E s \in Sockets : HandleUndo(s) /\ UNCHANGED <<lastOp, rendering, persistence>>
    \/ \E s \in Sockets : HandleRedo(s) /\ UNCHANGED <<lastOp, rendering, persistence>>
    \/ \E s \in Sockets : HandleDisconnect(s) /\ UNCHANGED <<lastOp, rendering, persistence>>
    \/ \E s \in Sockets : Deliver(s) /\ UNCHANGED <<lastOp, rendering, persistence>>
    \/ \E s \in Sockets, k \in 1..MaxEvents, t \in Times :
            HandleDrawShape(s, k, t) /\ UNCHANGED <<lastOp, rendering, persistence>>
    \/ \E s \in Sockets : HandleClearCanvas(s) /\ UNCHANGED <<lastOp, rendering, persistence>>

SpecRouter == Init /\ [][NextRouter]_vars

\* The drawing protocol with what each client shows: its canvas and its
\* snapshot cache.  A segment is painted by its own client in the step the
\* server receives it; the page sends draw-event and stop-drawing only while
\* it is drawing.
NextClient ==
    \/ \E s \in Sockets : \E roomName \in QueryRooms(s) :
            HandleConnection(s, roomName) /\ UNCHANGED <<lastOp, rendering, persistence>>
    \/ \E s \in Sockets, t \in Times :
            ClientStartDrawing(s, t) /\ UNCHANGED <<lastOp, persistence>>
    \/ \E s \in Sockets : ClientDraw(s) /\ UNCHANGED <<lastOp, persistence>>
    \/ \E s \in Sockets : ClientStopDrawing(s) /\ UNCHANGED <<lastOp, persistence>>
    \/ \E s \in Sockets : HandleUndo(s) /\ UNCHANGED <<lastOp, rendering, persistence>>
    \/ \E s \in Sockets : HandleRedo(s) /\ UNCHANGED <<lastOp, rendering, persistence>>
    \/ \E s \in Sockets : ClientDisconnect(s) /\ UNCHANGED <<lastOp, persistence>>
    \/ \E s \in Sockets : ClientDeliver(s) /\ UNCHANGED <<lastOp, persistence>>

SpecClient == Init /\ [][NextClient]_vars

\* The drawing protocol with the pages of part_001: strokes, rectangles,
\* undo and redo, and what each page shows.
NextShapes ==
    \/ \E s \in Sockets : \E roomName \in QueryRooms(s) :
            HandleConnection(s, roomName) /\ UNCHANGED <<lastOp, rendering, persistence>>
    \/ \E s \in Sockets, t \in Times :
            ClientStartDrawing(s, t) /\ UNCHANGED <<lastOp, persistence>>
    \/ \E s \in Sockets : ClientDraw(s) /\ UNCHANGED <<lastOp, persistence>>
    \/ \E s \in Sockets : ClientStopDrawing(s) /\ UNCHANGED <<lastOp, persistence>>
    \/ \E s \in Sockets, k \in 1..MaxEvents, t \in Times :
            ClientDrawShape(s, k, t) /\ UNCHANGED <<lastOp, persistence>>
    \/ \E s \in Sockets : HandleUndo(s) /\ UNCHANGED <<lastOp, rendering, persistence>>
    \/ \E s \in Sockets : HandleRedo(s) /\ UNCHANGED <<lastOp, rendering, persistence>>
    \/ \E s \in Sockets : ClientDisconnect(s) /\ UNCHANGED <<lastOp, persistence>>
    \/ \E s \in Sockets : ShapeClientDeliver(s) /\ UNCHANGED <<lastOp, persistence>>

SpecShapes == Init /\ [][NextShapes]_vars

\* SpecClient with the clear-canvas handler: every page of the room is sent
\* perform-clear.
NextClear ==
    \/ \E s \in Sockets : \E roomName \in QueryRooms(s) :
            HandleConnection(s, roomName) /\ UNCHANGED <<lastOp, rendering, persistence>>
    \/ \E s \in Sockets, t \in Times :
            ClientStartDrawing(s, t) /\ UNCHANGED <<lastOp, persistence>>
    \/ \E s \in Sockets : ClientDraw(s) /\ UNCHANGED <<lastOp, persistence>>
    \/ \E s \in Sockets : ClientStopDrawing(s) /\ UNCHANGED <<lastOp, persistence>>
    \/ \E s \in Sockets : HandleUndo(s) /\ UNCHANGED <<lastOp, rendering, persistence>>
    \/ \E s \in Sockets : HandleRedo(s) /\ UNCHANGED <<lastOp, rendering, persistence>>
    \/ \E s \in Sockets : HandleClearCanvas(s) /\ UNCHANGED <<lastOp, rendering, persistence>>
    \/ \E s \in Sockets : ClientDisconnect(s) /\ UNCHANGED <<lastOp, persistence>>
    \/ \E s \in Sockets : ClientDeliver(s) /\ UNCHANGED <<lastOp, persistence>>

SpecClear == Init /\ [][NextClear]_vars

\* The persistent drawing state, its callers and the store.  The store may
\* hold the document of an earlier run.
InitKV ==
    /\ kvStore \in [KVRooms -> PriorDocs]
    /\ InitPersistence
    /\ now = 0
    /\ roomStates = <<>>
    /\ roomOrder = <<>>
    /\ activeUsers = {}
    /\ conn = [s \in Sockets |-> "new"]
    /\ socketRoom = [s \in Sockets |-> NoRoom]
    /\ chan = [s \in Sockets |-> <<>>]
    /\ localActionHistory = [s \in Sockets |-> <<>>]
    /\ selfUser = [s \in Sockets |-> NoSocket]
    /\ cursors = [s \in Sockets |-> {}]
    /\ nextObj = 0
    /\ sentStroke = [s \in Sockets |-> <<>>]
    /\ serverLog = [r \in Rooms |-> <<>>]
    /\ recvPos = [s \in Sockets |-> 0]
    /\ discarded = {}
    /\ lastOp = NoOp
    /\ canvas = [s \in Sockets |-> BlankCanvas]
    /\ stateCache = [s \in Sockets |-> LoadedCache]

NextKV ==
    \/ \E op \in KVOps, roomName \in KVRooms, s \in Sockets, t \in Times :
            KVCall(op, roomName, s, t)
    \/ \E call \in kvCalls, ok \in BOOLEAN, t \in Times : KVLoaded(call, ok, t)
    \/ \E w \in kvWrites, ok \in BOOLEAN : KVWriteDone(w, ok)
    \/ \E s \in Sockets : KVClearActiveAction(s)

SpecKV == InitKV /\ [][NextKV]_vars

(* ----------------------------- claims ---------------------------------- *)
Connected == {s \in Sockets : conn[s] = "connected"}

RECURSIVE UndoTimes(_, _, _)
\* performUndo applied k times to a room.
UndoTimes(rs, roomName, k) ==
    IF k = 0 THEN rs ELSE UndoTimes(performUndo(rs, roomName).rs, roomName, k - 1)

RECURSIVE RedoTimes(_, _, _)
\* performRedo applied k times to a room.
RedoTimes(rs, roomName, k) ==
    IF k = 0 THEN rs ELSE RedoTimes(performRedo(rs, roomName).rs, roomName, k - 1)

\* C1: after a successful commit (stopUserAction returned an action) the
\* room's redoStack is empty, so a performRedo that follows returns absent
\* and leaves actionHistory as it is; and a commit applied to any reachable
\* room with an active action leaves such a room.
C1_CommitClearsRedo ==
    /\ (lastOp.op = "stop-drawing" /\ lastOp.ret # <<>>) =>
          LET r == lastOp.room
              redo == performRedo(roomStates, r)
          IN /\ roomStates[r].redoStack = <<>>
             /\ redo.ret = <<>>
             /\ redo.rs[r].actionHistory = roomStates[r].actionHistory
    /\ \A r \in DOMAIN roomStates :
          \A s \in DOMAIN roomStates[r].activeActions :
             LET commit == stopUserAction(roomStates, r, s)
                 redo == performRedo(commit.rs, r)
             IN /\ commit.ret # <<>>
                /\ commit.rs[r].redoStack = <<>>
                /\ redo.ret = <<>>
                /\ redo.rs[r].actionHistory = commit.rs[r].actionHistory

\* A commit has just succeeded in a room whose redo stack was not empty.
C1_Witness ==
    /\ lastOp.op = "stop-drawing"
    /\ lastOp.ret # <<>>
    /\ lastOp.pre.redoStack # <<>>

\* C2: in a room with a non-empty actionHistory, performUndo followed by
\* performRedo restores actionHistory and redoStack exactly and redoes the
\* very action that was undone; k undos followed by k redos restore the room
\* as well; and a redo handled right after an undo of the same room leaves
\* the room as it was before the undo.
C2_UndoRedoInverse ==
    /\ [](\A r \in DOMAIN roomStates :
            LET h == roomStates[r].actionHistory
                undo == performUndo(roomStates, r)
                redo == performRedo(undo.rs, r)
            IN /\ h # <<>> =>
                    /\ undo.ret = <<Last(h)>>
                    /\ redo.ret = undo.ret
                    /\ redo.rs = roomStates
               /\ \A k \in 1..Len(h) :
                    /\ Len(UndoTimes(roomStates, r, k)[r].actionHistory) = Len(h) - k
                    /\ RedoTimes(UndoTimes(roomStates, r, k), r, k) = roomStates)
    /\ [][\A s \in Sockets :
            (/\ lastOp.op = "undo"
             /\ lastOp.ret # <<>>
             /\ conn[s] = "connected"
             /\ socketRoom[s] = lastOp.room
             /\ HandleRedo(s))
            => /\ roomStates'[lastOp.room] = lastOp.pre
               /\ lastOp'.ret = lastOp.ret]_vars

\* A redo has just brought back the action that the undo before it removed.
C2_Witness ==
    /\ lastOp.op = "redo"
    /\ lastOp.ret # <<>>
    /\ LET log == serverLog[lastOp.room]
       IN /\ Len(log) >= 2
          /\ log[Len(log)].type = "perform-redo"
          /\ log[Len(log) - 1].type = "perform-undo"
          /\ log[Len(log) - 1].actionId = lastOp.ret[1].id

\* C3: an undo from any client of a room removes the action that is last in
\* the room's actionHistory, whoever committed it, and no other action.
C3_GlobalUndo ==
    (lastOp.op = "undo" /\ lastOp.pre.actionHistory # <<>>) =>
        LET r == lastOp.room
            before == lastOp.pre.actionHistory
        IN /\ lastOp.ret = <<Last(before)>>
           /\ roomStates[r].actionHistory = Front(before)
           /\ roomStates[r].redoStack = Append(lastOp.pre.redoStack, Last(before))
           /\ roomStates[r].activeActions = lastOp.pre.activeActions

\* X committed A, Y committed B, and the undo X asked for removed B.
C3_Witness ==
    /\ lastOp.op = "undo"
    /\ Len(lastOp.pre.actionHistory) = 2
    /\ lastOp.pre.actionHistory[1].id[1] = lastOp.sock
    /\ lastOp.pre.actionHistory[2].id[1] # lastOp.sock
    /\ lastOp.ret = <<lastOp.pre.actionHistory[2]>>
    /\ roomStates[lastOp.room].actionHistory = <<lastOp.pre.actionHistory[1]>>

\* The ids of a sequence of actions, in order.
Ids(actions) == [i \in 1..Len(actions) |-> actions[i].id]

\* Every notification the server has sent has been processed.
AllDelivered == \A u \in Sockets : chan[u] = <<>>

\* C4: once every message the server has sent is delivered and processed,
\* the localActionHistory of each connected client holds the same action
\* ids, in the same order, as the actionHistory of its room.
C4_MirrorConsistency ==
    AllDelivered =>
        \A s \in Connected :
            Ids(localActionHistory[s]) = Ids(roomStates[socketRoom[s]].actionHistory)

\* The notifications among the messages of a channel, in order.
Notifications(ch) == SelectSeq(ch, IsNotification)

\* C5: the commit/undo/redo notifications a client has still to process are
\* exactly the part of its room's log it has not processed yet, in the order
\* the server applied them: every client of a room sees the same order.
C5_SameOrder ==
    \A s \in Connected :
        LET log == serverLog[socketRoom[s]]
        IN /\ recvPos[s] <= Len(log)
           /\ Notifications(chan[s]) = SubSeq(log, recvPos[s] + 1, Len(log))

\* Two clients of one room have processed three notifications, an undo and
\* a redo among them.
C5_Witness ==
    \E r \in Rooms :
        /\ Cardinality(Members(r)) = 2
        /\ Len(serverLog[r]) = 3
        /\ \E i, j \in 1..3 : /\ serverLog[r][i].type = "perform-undo"
                              /\ serverLog[r][j].type = "perform-redo"
        /\ \A s \in Members(r) : recvPos[s] = 3

\* What one emit to a room does to the channels: the message is appended
\* once to the channel of every recipient and no other channel changes.
SentOnceTo(recipients, msg) ==
    \A u \in Sockets :
        chan'[u] = IF u \in recipients THEN Append(chan[u], msg) ELSE chan[u]

\* The rooms other than roomName are as they were.
OtherRoomsUnchanged(roomName) ==
    \A q \in DOMAIN roomStates : q # roomName => roomStates'[q] = roomStates[q]

\* C6: when the server handles the stop-drawing of a client that has sent
\* start-drawing and then n >= 0 draw-events, exactly one action is appended
\* to the actionHistory of its room, the events of that action are the start
\* event and the n draw events in the order they were sent, and exactly one
\* action-committed carrying that action is appended to the channel of every
\* member of the room, the sender included.
C6_StrokeCommit ==
    [][\A s \in Sockets :
          (HandleStopDrawing(s) /\ sentStroke[s] # <<>>) =>
              LET r == socketRoom[s]
                  before == RoomBefore(r).actionHistory
                  after == roomStates'[r].actionHistory
              IN /\ after = Append(before, Last(after))
                 /\ Last(after).events = sentStroke[s]
                 /\ Last(after).id[1] = s
                 /\ OtherRoomsUnchanged(r)
                 /\ s \in Members(r)
                 /\ SentOnceTo(Members(r),
                               [type |-> "action-committed", action |-> Last(after)])
                 /\ serverLog'[r] = Append(serverLog[r],
                               [type |-> "action-committed", action |-> Last(after)])]_vars

\* A stroke of two events has just been committed in a room of two clients:
\* its action-committed is the latest message on the channel of both.
C6_Witness ==
    \E r \in Rooms :
        /\ Cardinality(Members(r)) = 2
        /\ serverLog[r] # <<>>
        /\ Last(serverLog[r]).type = "action-committed"
        /\ Len(Last(serverLog[r]).action.events) = 2
        /\ r \in DOMAIN roomStates
        /\ roomStates[r].actionHistory # <<>>
        /\ Last(roomStates[r].actionHistory) = Last(serverLog[r]).action
        /\ \A u \in Members(r) :
              chan[u] # <<>> /\ Last(chan[u]) = Last(serverLog[r])

\* C7: a successful undo appends exactly one perform-undo, with the id of the
\* action just popped from actionHistory, to the channel of every member of
\* the room, the requester included; a successful redo appends exactly one
\* perform-redo with the whole action just moved back to actionHistory; and
\* after the undo of a one-action history the room's history is empty.
C7_UndoRedoNotification ==
    [][\A s \in Sockets :
          LET r == socketRoom[s]
              pre == RoomBefore(r)
          IN /\ (HandleUndo(s) /\ pre.actionHistory # <<>>) =>
                    /\ s \in Members(r)
                    /\ SentOnceTo(Members(r),
                                  [type |-> "perform-undo",
                                   actionId |-> Last(pre.actionHistory).id])
                    /\ roomStates'[r].actionHistory = Front(pre.actionHistory)
                    /\ Last(roomStates'[r].redoStack) = Last(pre.actionHistory)
                    /\ Len(pre.actionHistory) = 1 =>
                           roomStates'[r].actionHistory = <<>>
             /\ (HandleRedo(s) /\ pre.redoStack # <<>>) =>
                    /\ s \in Members(r)
                    /\ SentOnceTo(Members(r),
                                  [type |-> "perform-redo",
                                   action |-> Last(pre.redoStack)])
                    /\ roomStates'[r].redoStack = Front(pre.redoStack)
                    /\ Last(roomStates'[r].actionHistory) = Last(pre.redoStack)]_vars

\* In a room of two clients the only action was undone and then redone, and
\* both clients have the perform-undo and the perform-redo still to process.
C7_Witness ==
    \E r \in Rooms :
        /\ Cardinality(Members(r)) = 2
        /\ Len(serverLog[r]) = 3
        /\ serverLog[r][1].type = "action-committed"
        /\ serverLog[r][2] = [type |-> "perform-undo",
                              actionId |-> serverLog[r][1].action.id]
        /\ serverLog[r][3] = [type |-> "perform-redo",
                              action |-> serverLog[r][1].action]
        /\ \A u \in Members(r) : chan[u] = <<serverLog[r][2], serverLog[r][3]>>

\* C8: an undo on an empty actionHistory and a redo on an empty redoStack
\* return absent, leave actionHistory, redoStack and activeActions of the
\* room (and every other room) as they were, and send nothing to anyone.
C8_EmptyUndoRedoNoOp ==
    [][\A s \in Sockets :
          LET r == socketRoom[s]
              pre == RoomBefore(r)
          IN /\ (HandleUndo(s) /\ pre.actionHistory = <<>>) =>
                    /\ performUndo(roomStates, r).ret = <<>>
                    /\ lastOp'.ret = <<>>
                    /\ roomStates'[r] = pre
                    /\ OtherRoomsUnchanged(r)
                    /\ chan' = chan
                    /\ serverLog' = serverLog
             /\ (HandleRedo(s) /\ pre.redoStack = <<>>) =>
                    /\ performRedo(roomStates, r).ret = <<>>
                    /\ lastOp'.ret = <<>>
                    /\ roomStates'[r] = pre
                    /\ OtherRoomsUnchanged(r)
                    /\ chan' = chan
                    /\ serverLog' = serverLog]_vars

\* An undo has just been handled in a room whose history was empty while its
\* redo stack was not: it returned absent and the redo stack is still there.
C8_Witness ==
    /\ lastOp.op = "undo"
    /\ lastOp.ret = <<>>
    /\ lastOp.pre.actionHistory = <<>>
    /\ lastOp.pre.redoStack # <<>>
    /\ roomStates[lastOp.room] = lastOp.pre

\* C9: a draw-event or stop-drawing from a client with no active action
\* leaves actionHistory, redoStack and activeActions of every room as they
\* were (a stray stop-drawing does not clear the redo stack) and sends no
\* action-committed: a stray stop-drawing sends nothing, a stray draw-event
\* is only forwarded as a live draw-event to the other members.
C9_StrayIgnored ==
    [][\A s \in Sockets :
          LET r == socketRoom[s]
              pre == RoomBefore(r)
          IN (conn[s] = "connected" /\ s \notin DOMAIN pre.activeActions) =>
                /\ HandleStopDrawing(s) =>
                      /\ stopUserAction(roomStates, r, s).ret = <<>>
                      /\ roomStates'[r] = pre
                      /\ OtherRoomsUnchanged(r)
                      /\ chan' = chan
                      /\ serverLog' = serverLog
                /\ HandleDrawEvent(s) =>
                      /\ roomStates'[r] = pre
                      /\ OtherRoomsUnchanged(r)
                      /\ serverLog' = serverLog
                      /\ \A u \in Sockets :
                            \/ chan'[u] = chan[u]
                            \/ /\ u # s
                               /\ Len(chan'[u]) = Len(chan[u]) + 1
                               /\ Front(chan'[u]) = chan[u]
                               /\ Last(chan'[u]).type = "draw-event"]_vars

\* A stop-drawing with no active action has just been handled in a room whose
\* redo stack was not empty, and the redo stack is still there.
C9_Witness ==
    /\ lastOp.op = "stop-drawing"
    /\ lastOp.ret = <<>>
    /\ lastOp.pre.redoStack # <<>>
    /\ roomStates[lastOp.room] = lastOp.pre

\* The object identities of a sequence of actions.
ObjsOf(actions) == {actions[i].obj : i \in 1..Len(actions)}

\* The actions a message carries.
MsgObjs(msg) ==
    CASE msg.type \in {"action-committed", "perform-redo"} -> {msg.action.obj}
      [] msg.type = "global-redraw" -> ObjsOf(msg.history)
      [] OTHER -> {}

\* The actions carried by the messages of a sequence.
ChanObjs(ch) == UNION {MsgObjs(ch[i]) : i \in 1..Len(ch)}

\* C10: an action that was in progress when its client disconnected is
\* discarded: it is in no room's activeActions, actionHistory or redoStack,
\* no action-committed (or any other message with an action) was or is
\* sent for it, and it is in no client's localActionHistory.  (The segments
\* of the stroke were forwarded live as draw-events while it was drawn; the
\* claim is about the action.)
C10_DisconnectDiscards ==
    \A o \in discarded :
        /\ \A r \in DOMAIN roomStates :
              /\ o \notin ObjsOf(roomStates[r].actionHistory)
              /\ o \notin ObjsOf(roomStates[r].redoStack)
              /\ \A s \in DOMAIN roomStates[r].activeActions :
                    roomStates[r].activeActions[s].obj # o
        /\ \A r \in Rooms : o \notin ChanObjs(serverLog[r])
        /\ \A u \in Sockets :
              /\ o \notin ChanObjs(chan[u])
              /\ o \notin ObjsOf(localActionHistory[u])

\* A client closed its connection in the middle of a stroke while another
\* client of the same room, whose mirror holds a committed action, stays.
C10_Witness ==
    /\ discarded # {}
    /\ \E s, u \in Sockets :
          /\ conn[s] = "closed"
          /\ conn[u] = "connected"
          /\ socketRoom[s] = socketRoom[u]
          /\ localActionHistory[u] # <<>>
          /\ roomStates[socketRoom[u]].actionHistory # <<>>

\* C11: a start-drawing, draw-event, stop-drawing, undo, redo or cursor-move
\* from a client of room R changes the actionHistory, redoStack and
\* activeActions of no room other than R, and whatever it makes the server
\* send reaches only members of R: the channel of every other connection is
\* as it was.
C11_RoomScoping ==
    [][\A s \in Sockets :
          (/\ conn[s] = "connected"
           /\ \/ \E t \in Times : HandleStartDrawing(s, t)
              \/ HandleDrawEvent(s)
              \/ HandleStopDrawing(s)
              \/ HandleUndo(s)
              \/ HandleRedo(s)
              \/ HandleCursorMove(s))
          => /\ OtherRoomsUnchanged(socketRoom[s])
             /\ \A u \in Sockets \ Members(socketRoom[s]) : chan'[u] = chan[u]
             /\ \A q \in Rooms \ {socketRoom[s]} : serverLog'[q] = serverLog[q]]_vars

\* Two rooms are in use at once: an action was committed and undone in one
\* while a client of the other, which has received none of it, is in the
\* middle of a stroke.
C11_Witness ==
    \E s, u \in Sockets :
        /\ conn[s] = "connected"
        /\ conn[u] = "connected"
        /\ socketRoom[s] # socketRoom[u]
        /\ Len(serverLog[socketRoom[s]]) >= 2
        /\ roomStates[socketRoom[s]].redoStack # <<>>
        /\ serverLog[socketRoom[u]] = <<>>
        /\ u \in DOMAIN roomStates[socketRoom[u]].activeActions
        /\ roomStates[socketRoom[u]].actionHistory = <<>>
        /\ roomStates[socketRoom[u]].redoStack = <<>>
        /\ Notifications(chan[u]) = <<>>
        /\ localActionHistory[u] = <<>>

RECURSIVE replayActions(_, _)
\* The events of the actions painted in order over a canvas.
replayActions(cv, actions) ==
    IF actions = <<>> THEN cv
    ELSE replayActions(drawEvents(cv, Head(actions).events), Tail(actions))

\* C14: on every client, for every action Ai of the local history [A1..An],
\* restoring the snapshot stored under Ai and replaying A(i+1)..An gives
\* the raster stored under An, other clients streaming live strokes or not.
C14_CacheCorrect ==
    \A s \in Connected :
        LET local == localActionHistory[s]
            n == Len(local)
        IN \A i \in 1..n :
              (local[i].id \in DOMAIN stateCache[s]
                  /\ local[n].id \in DOMAIN stateCache[s])
              => replayActions(stateCache[s][local[i].id], SubSeq(local, i + 1, n))
                    = stateCache[s][local[n].id]

\* What a client holds: its history mirror, its canvas and its cache.
ClientState(s) ==
    [local |-> localActionHistory[s], canvas |-> canvas[s],
     cache |-> stateCache[s]]

\* A page that has just loaded.
FreshClient ==
    [local |-> <<>>, canvas |-> BlankCanvas, cache |-> LoadedCache]

\* The client after the global-redraw listener has run setHistory(history).
AfterGlobalRedraw(client, history) ==
    LET view == setHistoryView(client.local, client.canvas, client.cache, history)
    IN [local |-> setHistory(client.local, history),
        canvas |-> view.canvas, cache |-> view.cache]

\* The histories the server may send: every array of actions it holds.
HistoriesHeld ==
    {roomStates[r].actionHistory : r \in DOMAIN roomStates}
        \cup {roomStates[r].redoStack : r \in DOMAIN roomStates}

\* C15: a global-redraw with history H, processed from any state a client
\* is in, leaves the mirror, the canvas and the cache of a fresh client
\* that has only processed that global-redraw; processing it twice leaves
\* what processing it once leaves.
C15_IdempotentResync ==
    /\ [](\A s \in Connected : \A H \in HistoriesHeld :
            LET once == AfterGlobalRedraw(ClientState(s), H)
            IN /\ once = AfterGlobalRedraw(FreshClient, H)
               /\ AfterGlobalRedraw(once, H) = once)
    /\ [][\A s \in Sockets :
            (ClientDeliver(s) /\ Head(chan[s]).type = "global-redraw")
            => ClientState(s)' = AfterGlobalRedraw(FreshClient,
                                                  Head(chan[s]).history)]_vars

\* A client that joined a room with one committed stroke pressed the mouse
\* before it processed its global-redraw: its own segment, painted first,
\* has been replaced by the history.
C15_Witness ==
    /\ conn["s2"] = "connected"
    /\ nextObj = 2
    /\ isDrawing("s2")
    /\ Len(localActionHistory["s2"]) = 1
    /\ localActionHistory["s2"][1].obj = 1
    /\ localActionHistory["s2"][1].id[1] = "s1"
    /\ chan["s2"] = <<>>
    /\ canvas["s2"][1] = "s1"
    /\ DOMAIN stateCache["s2"] = {INITIAL_STATE_KEY, localActionHistory["s2"][1].id}

\* Every DrawAction object a room holds: in progress, committed or undone.
RoomActions(r) ==
    LET state == roomStates[r]
    IN {state.activeActions[u] : u \in DOMAIN state.activeActions}
        \cup {state.actionHistory[i] : i \in 1..Len(state.actionHistory)}
        \cup {state.redoStack[i] : i \in 1..Len(state.redoStack)}

\* C16: no two action objects of a room carry the same id, two strokes of
\* one connection started within the same clock tick included.
C16_IdsUnique ==
    \A r \in DOMAIN roomStates :
        \A a, b \in RoomActions(r) : a.obj # b.obj => a.id # b.id

\* C17: in every room, no action held in activeActions is an element of
\* the room's actionHistory.
C17_ActiveNotInHistory ==
    \A r \in DOMAIN roomStates :
        LET state == roomStates[r]
        IN \A u \in DOMAIN state.activeActions :
              \A i \in 1..Len(state.actionHistory) :
                  state.actionHistory[i] # state.activeActions[u]

\* A connection has committed one stroke and is drawing the next one.
C17_Witness ==
    \E r \in DOMAIN roomStates :
        LET state == roomStates[r]
        IN /\ "s1" \in DOMAIN state.activeActions
           /\ Len(state.actionHistory) = 1
           /\ state.actionHistory[1].id[1] = "s1"
           /\ state.actionHistory[1].obj = 1
           /\ state.activeActions["s1"].obj = 2

\* The fields of a document of the store.
DocFields == {"actionHistory", "redoStack"}

\* The documents handed to kv.set and not yet answered, and those stored.
DocsOf(r) ==
    {w.doc : w \in {x \in kvWrites : x.room = r}}
        \cup (IF kvStore[r] # <<>> THEN {kvStore[r][1]} ELSE {})

\* The actions in progress in a room of the map rs.
ActiveIn(rs, r) ==
    IF r \in DOMAIN rs
    THEN {rs[r].activeActions[u] : u \in DOMAIN rs[r].activeActions}
    ELSE {}

\* C18: a document written for a room holds exactly the room's
\* actionHistory and redoStack as they are when it is written; no
\* activeActions entry and no action in progress is in a document; a room
\* loaded from the store starts with an empty activeActions map.
C18_PersistedLayout ==
    /\ [](\A r \in KVRooms : \A doc \in DocsOf(r) :
              /\ DOMAIN doc = DocFields
              /\ loadRoomState(<<doc>>)[1].activeActions = <<>>)
    /\ [][/\ \A w \in kvWrites' \ kvWrites :
                /\ w.doc.actionHistory = roomStates'[w.room].actionHistory
                /\ w.doc.redoStack = roomStates'[w.room].redoStack
                /\ \A a \in ActiveIn(roomStates', w.room) :
                      /\ \A i \in 1..Len(w.doc.actionHistory) :
                            w.doc.actionHistory[i] # a
                      /\ \A i \in 1..Len(w.doc.redoStack) :
                            w.doc.redoStack[i] # a
          /\ \A call \in kvCalls \ kvCalls' :
                (call.pc = "load" /\ call.op # "startUserAction")
                => roomStates'[call.room].activeActions = <<>>]_vars

\* A stroke has been committed and its document stored while another
\* connection has a stroke in progress.
C18_Witness ==
    /\ kvWrites = {}
    /\ kvStore["r1"] # <<>>
    /\ kvStore["r1"] \notin PriorDocs
    /\ "r1" \in DOMAIN roomStates
    /\ DOMAIN roomStates["r1"].activeActions = {"s2"}
    /\ Len(roomStates["r1"].actionHistory) > 0
    /\ kvStore["r1"][1].actionHistory = roomStates["r1"].actionHistory
    /\ kvReturned.op = "stopUserAction"
    /\ kvReturned.ret # <<>>

\* C19: once every kv.set of a room has been answered, none of them with a
\* failure, the document stored is the room's actionHistory and redoStack
\* as they are in memory, however the commits, undos and redos overlapped.
C19_StoreCatchesUp ==
    \A r \in KVRooms :
        (/\ r \in DOMAIN roomStates
         /\ {w \in kvWrites : w.room = r} = {}
         /\ ~kvFailed[r]
         /\ kvReturned.op \in {"stopUserAction", "performUndo", "performRedo"}
         /\ kvReturned.ret # <<>>)
        => kvStore[r] = <<saveRoomState(roomStates[r])>>

\* C20: the result of a commit, an undo or a redo is returned to the router
\* as soon as the room has been changed in memory: no call that has made
\* its change is held back until its kv.set is answered.
C20_ResultWithoutWaiting ==
    \A call \in kvCalls : call.pc = "save" => call.ret = <<>>

\* The action a commit, an undo or a redo has moved, read off the document
\* saved right after it: the new tail of the redo stack for an undo, the
\* new tail of the history otherwise.
MovedAction(op, doc) ==
    IF op = "performUndo" THEN Last(doc.redoStack) ELSE Last(doc.actionHistory)

\* C21: when the kv.set sent by a commit, an undo or a redo fails, the
\* room's actionHistory and redoStack stay as they are in memory (nothing is
\* rolled back) and the call returns the action it has moved.
C21_WriteFailureKeepsMemory ==
    [][\A w \in kvWrites :
          KVWriteDone(w, FALSE)
          => /\ roomStates' = roomStates
             /\ \A c \in kvCalls :
                   c.id = w.call
                   => /\ kvReturned' = [id |-> c.id, op |-> c.op, ret |-> c.ret]
                      /\ c.ret = <<MovedAction(c.op, w.doc)>>]_vars

\* The write of a commit has failed: the store holds nothing, the stroke is
\* in the room's history and it has been returned.
C21_Witness ==
    /\ kvFailed["r1"]
    /\ kvWrites = {}
    /\ kvStore["r1"] = <<>>
    /\ kvReturned.op = "stopUserAction"
    /\ kvReturned.ret # <<>>
    /\ "r1" \in DOMAIN roomStates
    /\ roomStates["r1"].actionHistory = kvReturned.ret

\* What each operation leaves of a room that was empty when it ran: a new
\* stroke in progress after startUserAction, nothing otherwise.
OnEmptyRoom(op, socketId, t, obj) ==
    IF op = "startUserAction"
    THEN [BlankRoomState EXCEPT !.activeActions =
            (socketId :> newAction(socketId, t, Segment(socketId, 1), obj))]
    ELSE BlankRoomState

\* C22: when the kv.get of the first reference to a room fails, the room is
\* created with empty actionHistory, redoStack and activeActions, whatever
\* the store holds, and the operation runs on it as on a new room: it
\* returns (the empty history for getActionHistory, no action otherwise)
\* and sends no write.
C22_ReadFailureStartsEmpty ==
    [][\A call \in kvCalls : \A t \in Times :
          (call.room \notin DOMAIN roomStates /\ KVLoaded(call, FALSE, t))
          => /\ call.room \in DOMAIN roomStates'
             /\ roomStates'[call.room] =
                    OnEmptyRoom(call.op, call.sock, t, nextObj + 1)
             /\ kvReturned' =
                    [id |-> call.id, op |-> call.op,
                     ret |-> IF call.op = "getActionHistory"
                             THEN << <<>> >> ELSE <<>>]
             /\ call \notin kvCalls'
             /\ kvWrites' = kvWrites]_vars

\* The store holds the document of an earlier run, the read of the first
\* call has failed, and the room is in memory with an empty history.
C22_Witness ==
    /\ kvStore["r1"] # <<>>
    /\ kvStore["r1"] \in PriorDocs
    /\ kvNextCall = 1
    /\ kvCalls = {}
    /\ kvReturned = [id |-> 1, op |-> "getActionHistory", ret |-> << <<>> >>]
    /\ "r1" \in DOMAIN roomStates
    /\ roomStates["r1"] = BlankRoomState

\* The connections open in a room, one connection left out.
OthersIn(r, s) ==
    {u \in Sockets \ {s} : conn[u] = "connected" /\ socketRoom[u] = r}

\* The history the server holds for a room (empty for a room it has not
\* seen).
HistoryOf(r) ==
    IF r \in DOMAIN roomStates THEN roomStates[r].actionHistory ELSE <<>>

\* C23: when a connection joins a room, it is sent a welcome that lists the
\* other connections open in that room and no one else, then a
\* global-redraw with the room's whole actionHistory of that moment; the
\* other members of the room, and only they, are told of the new user; and
\* a client that processes a global-redraw takes its history as its
\* localActionHistory.
C23_Join ==
    [][/\ \A s \in Sockets :
            (conn[s] = "new" /\ conn'[s] = "connected")
            => LET r == socketRoom'[s]
                   others == OthersIn(r, s)
               IN /\ chan'[s] = chan[s] \o
                        <<[type |-> "welcome", self |-> s, others |-> others],
                          [type |-> "global-redraw", history |-> HistoryOf(r)]>>
                  /\ \A u \in others :
                        chan'[u] = Append(chan[u],
                            [type |-> "new-user-connected", user |-> s])
                  /\ \A u \in Sockets \ (others \cup {s}) : chan'[u] = chan[u]
       /\ \A s \in Sockets :
            (Deliver(s) /\ Head(chan[s]).type = "global-redraw")
            => localActionHistory'[s] = Head(chan[s]).history]_vars

\* The second connection has joined the room of the first after a stroke
\* was committed there: each knows the other and the newcomer holds the
\* room's history.
C23_Witness ==
    /\ conn["s1"] = "connected"
    /\ conn["s2"] = "connected"
    /\ socketRoom["s1"] = "r1"
    /\ socketRoom["s2"] = "r1"
    /\ chan["s1"] = <<>>
    /\ chan["s2"] = <<>>
    /\ selfUser["s2"] = "s2"
    /\ cursors["s2"] = {"s1"}
    /\ cursors["s1"] = {"s2"}
    /\ recvPos["s2"] = 1
    /\ Len(localActionHistory["s2"]) = 1
    /\ localActionHistory["s2"] = roomStates["r1"].actionHistory

\* Nothing is on its way to a member of the room and no stroke of the room
\* is in progress.
Quiet(r) ==
    /\ \A u \in Members(r) : chan[u] = <<>> /\ ~isDrawing(u)
    /\ r \in DOMAIN roomStates => roomStates[r].activeActions = <<>>

\* C24: once every message is delivered and no stroke is in progress, the
\* canvas of each connected client is its localActionHistory replayed on a
\* blank canvas.
C24_CanvasConverges ==
    \A s \in Connected :
        Quiet(socketRoom[s])
        => canvas[s] = replayActions(BlankCanvas, localActionHistory[s])

\* C25: after a client has processed action-committed for an action, every
\* pixel an event of the action covers is painted on its canvas, whether it
\* saw the stroke live from its start or joined the room while the stroke
\* was in progress.
C25_CommittedIsOnCanvas ==
    [][\A s \in Sockets :
          (ClientDeliver(s) /\ Head(chan[s]).type = "action-committed")
          => LET events == Head(chan[s]).action.events
             IN \A i \in 1..Len(events) :
                   canvas'[s][events[i].seg] # Transparent]_vars

\* The server's history of a room before its latest undo, when nothing has
\* changed the history since: the action undone is the tail of the redo
\* stack.
HistoryBeforeUndo(r) ==
    Append(roomStates[r].actionHistory, Last(roomStates[r].redoStack))

\* C26: on perform-undo the client removes the action named from its
\* localActionHistory; when its mirror was the server's history before the
\* undo, exactly one entry goes and it is the last one.
C26_UndoRemovesTail ==
    [][\A s \in Sockets :
          (Deliver(s) /\ Head(chan[s]).type = "perform-undo")
          => LET local == localActionHistory[s]
                 r == socketRoom[s]
                 msg == Head(chan[s])
             IN /\ \A i \in 1..Len(localActionHistory'[s]) :
                      localActionHistory'[s][i].id # msg.actionId
                /\ (/\ Len(chan[s]) = 1
                    /\ recvPos[s] + 1 = Len(serverLog[r])
                    /\ roomStates[r].redoStack # <<>>
                    /\ local = HistoryBeforeUndo(r))
                   => localActionHistory'[s] = Front(local)]_vars

\* The ids of the actions of a history.
IdsIn(local) == {local[i].id : i \in 1..Len(local)}

\* The cache a full rebuild leaves: the blank canvas under the sentinel key
\* and, under each id, the history replayed up to the last action with
\* that id.
RebuiltCache(local) ==
    [k \in {INITIAL_STATE_KEY} \cup IdsIn(local) |->
        IF k = INITIAL_STATE_KEY THEN BlankCanvas
        ELSE LET last == CHOOSE i \in 1..Len(local) :
                            /\ local[i].id = k
                            /\ \A j \in (i + 1)..Len(local) : local[j].id # k
             IN replayActions(BlankCanvas, SubSeq(local, 1, last))]

\* The canvas and the cache after a full rebuild.
Rebuilt(local) ==
    [canvas |-> replayActions(BlankCanvas, local), cache |-> RebuiltCache(local)]

\* The key of the snapshot of the tail of a history: the sentinel for the
\* empty history.
TailKey(local) ==
    IF local = <<>> THEN INITIAL_STATE_KEY ELSE Last(local).id

\* C27: on perform-undo the client, having removed the action, looks up
\* the snapshot under the id of the new tail of localActionHistory (the
\* sentinel key for an empty history); with a snapshot the canvas becomes
\* that snapshot and the cache is left as it is, without one the canvas is
\* cleared, localActionHistory is replayed and the cache is rebuilt.
C27_UndoRestores ==
    /\ [](\A s \in Connected : \A id \in IdsIn(localActionHistory[s]) :
             undoActionByIdView(localActionHistory[s], canvas[s], <<>>, id)
                = Rebuilt(undoActionById(localActionHistory[s], id)))
    /\ [][\A s \in Sockets :
             (ClientDeliver(s) /\ Head(chan[s]).type = "perform-undo")
             => LET key == TailKey(localActionHistory'[s])
                IN IF key \in DOMAIN stateCache[s]
                   THEN /\ canvas'[s] = stateCache[s][key]
                        /\ stateCache'[s] = stateCache[s]
                   ELSE /\ canvas'[s] = Rebuilt(localActionHistory'[s]).canvas
                        /\ stateCache'[s] = Rebuilt(localActionHistory'[s]).cache]_vars

\* A client has processed the undo of the only stroke: its history is
\* empty, its canvas is blank again and the snapshot of the stroke is still
\* in its cache.
C27_Witness ==
    \E s \in Connected :
        LET r == socketRoom[s]
        IN /\ chan[s] = <<>>
           /\ Len(serverLog[r]) = 2
           /\ recvPos[s] = 2
           /\ serverLog[r][2].type = "perform-undo"
           /\ localActionHistory[s] = <<>>
           /\ canvas[s] = BlankCanvas
           /\ serverLog[r][2].actionId \in DOMAIN stateCache[s]
           /\ stateCache[s][serverLog[r][2].actionId] # BlankCanvas

\* C28: on perform-redo the client appends the action and looks up the
\* snapshot of the prior tail (the sentinel key when the action is the only
\* one); with a snapshot the canvas becomes that snapshot with the action
\* painted on it and the result is stored under the id of the action,
\* without one the canvas and the cache are rebuilt.
C28_RedoRepaints ==
    /\ [](\A s \in Connected : \A r \in DOMAIN roomStates :
             \A i \in 1..Len(roomStates[r].redoStack) :
                LET action == roomStates[r].redoStack[i]
                IN redoActionView(localActionHistory[s], canvas[s], <<>>, action)
                      = Rebuilt(Append(localActionHistory[s], action)))
    /\ [][\A s \in Sockets :
             (ClientDeliver(s) /\ Head(chan[s]).type = "perform-redo")
             => LET action == Head(chan[s]).action
                    key == TailKey(localActionHistory[s])
                IN /\ localActionHistory'[s] = Append(localActionHistory[s], action)
                   /\ IF key \in DOMAIN stateCache[s]
                      THEN /\ canvas'[s] =
                                drawEvents(stateCache[s][key], action.events)
                           /\ stateCache'[s] =
                                MapSet(stateCache[s], action.id, canvas'[s])
                      ELSE /\ canvas'[s] = Rebuilt(localActionHistory'[s]).canvas
                           /\ stateCache'[s] =
                                Rebuilt(localActionHistory'[s]).cache]_vars

\* A client has processed the redo of a stroke that was undone: the stroke
\* is the tail of its history again and its canvas is the snapshot stored
\* under the id of the stroke.
C28_Witness ==
    \E s \in Connected :
        LET r == socketRoom[s]
        IN /\ chan[s] = <<>>
           /\ Len(serverLog[r]) = 3
           /\ recvPos[s] = 3
           /\ serverLog[r][3].type = "perform-redo"
           /\ localActionHistory[s] = <<serverLog[r][3].action>>
           /\ canvas[s] # BlankCanvas
           /\ serverLog[r][3].action.id \in DOMAIN stateCache[s]
           /\ canvas[s] = stateCache[s][serverLog[r][3].action.id]

\* C29: the cache of a client always holds a snapshot under the sentinel
\* key and under the id of every action of its localActionHistory, so an
\* undo or a redo always finds the snapshot it looks up and never rebuilds.
C29_CacheCoverage ==
    /\ [](\A s \in Connected :
             ({INITIAL_STATE_KEY} \cup IdsIn(localActionHistory[s]))
                \subseteq DOMAIN stateCache[s])
    /\ [][\A s \in Sockets :
             /\ (ClientDeliver(s) /\ Head(chan[s]).type = "perform-undo")
                => TailKey(localActionHistory'[s]) \in DOMAIN stateCache[s]
             /\ (ClientDeliver(s) /\ Head(chan[s]).type = "perform-redo")
                => TailKey(localActionHistory[s]) \in DOMAIN stateCache[s]]_vars

\* A client has processed a global-redraw, two commits, an undo and no
\* more: its history has one action and its cache three snapshots.
C29_Witness ==
    \E s \in Connected :
        LET r == socketRoom[s]
        IN /\ chan[s] = <<>>
           /\ Len(serverLog[r]) = 3
           /\ recvPos[s] = 3
           /\ serverLog[r][3].type = "perform-undo"
           /\ Len(localActionHistory[s]) = 1
           /\ Cardinality(DOMAIN stateCache[s]) = 3

(* ----------------------------- C30 ------------------------------------ *)
\* C30: when a page processes action-committed for a rectangle action, it
\* paints the shape if and only if the action was authored by another
\* client; for its own shape the canvas is left as it is.  Either way the
\* action is appended to the local history and the canvas is stored under
\* the action's id.
C30_ShapeRenderedIffRemote ==
    [][\A s \in Sockets :
          (/\ ShapeClientDeliver(s)
           /\ Head(chan[s]).type = "action-committed"
           /\ isShape(Head(chan[s]).action))
          => LET action == Head(chan[s]).action
             IN /\ canvas'[s] = IF action.id[1] # s
                                THEN performDrawRect(canvas[s], action.events[1])
                                ELSE canvas[s]
                /\ localActionHistory'[s] = Append(localActionHistory[s], action)
                /\ action.id \in DOMAIN stateCache'[s]
                /\ stateCache'[s][action.id] = canvas'[s]]_vars

(* ----------------------------- C31 ------------------------------------ *)
\* C31: when a page processes perform-clear, its local history is emptied,
\* its canvas is blank and its cache holds the blank canvas under the
\* initial key and nothing else.
C31_PerformClearClears ==
    [][\A s \in Sockets :
          (ClientDeliver(s) /\ Head(chan[s]).type = "perform-clear")
          => /\ localActionHistory'[s] = <<>>
             /\ canvas'[s] = BlankCanvas
             /\ stateCache'[s] = LoadedCache]_vars

(* ----------------------------- C32 ------------------------------------ *)
\* An operation has run on the room state `base` of roomName in this step:
\* when it has changed actionHistory or redoStack, exactly one kv.set has
\* been sent, for that room, with the two sequences as they are after the
\* step; otherwise none has been sent.
WriteFollows(base, roomName) ==
    LET after == roomStates'[roomName]
    IN IF \/ after.actionHistory # base.actionHistory
          \/ after.redoStack # base.redoStack
       THEN /\ kvWrites \subseteq kvWrites'
            /\ Cardinality(kvWrites' \ kvWrites) = 1
            /\ \A w \in kvWrites' \ kvWrites :
                  /\ w.room = roomName
                  /\ w.doc = [actionHistory |-> after.actionHistory,
                              redoStack |-> after.redoStack]
       ELSE kvWrites' = kvWrites

\* The operations that may change what is persisted.
Persisting == {"stopUserAction", "performUndo", "performRedo"}

\* C32: every successful commit, undo and redo of the persistent drawing
\* state sends one write for its room, holding the room's actionHistory and
\* redoStack after the mutation; startUserAction, addUserEvent,
\* getActionHistory, clearActiveAction and a stop, undo or redo that finds
\* nothing to move send none.
C32_WriteAfterMutation ==
    [][/\ \A op \in KVOps, roomName \in KVRooms, s \in Sockets, t \in Times :
            KVCall(op, roomName, s, t)
            => IF roomName \in DOMAIN roomStates
               THEN /\ WriteFollows(roomStates[roomName], roomName)
                    /\ kvWrites' # kvWrites
                          <=> op \in Persisting /\ kvReturned' = kvReturned
               ELSE kvWrites' = kvWrites
       /\ \A call \in kvCalls, ok \in BOOLEAN, t \in Times :
            KVLoaded(call, ok, t)
            => LET loadedState ==
                      loadRoomState(IF ok THEN kvStore[call.room] ELSE <<>>)
                   base == kvInstall(roomStates, call.room, loadedState)
               IN /\ WriteFollows(base[call.room], call.room)
                  /\ kvWrites' # kvWrites => call.op \in Persisting
       /\ \A s \in Sockets : KVClearActiveAction(s) => kvWrites' = kvWrites]_vars

\* An undo has run on a room loaded from the store and its write is on its
\* way: the document holds the history without the undone action and the
\* redo stack with it.
C32_Witness ==
    /\ "r1" \in DOMAIN roomStates
    /\ \E w \in kvWrites, c \in kvCalls :
          /\ c.id = w.call
          /\ c.op = "performUndo"
          /\ c.ret # <<>>
          /\ w.doc.actionHistory = roomStates["r1"].actionHistory
          /\ w.doc.redoStack = roomStates["r1"].redoStack
          /\ Last(w.doc.redoStack) = c.ret[1]

(* ----------------------------- C33 ------------------------------------ *)
\* C33: a room's RoomState is created once.  When the answer of the store
\* reaches a call whose room the map already holds (another call has
\* referenced the room in the meantime), the call operates on the state the
\* map holds: the room afterwards is what the operation makes of that
\* state, so nothing done through the other call is lost.
C33_SingleRoomState ==
    [][\A call \in kvCalls, ok \in BOOLEAN, t \in Times :
          (KVLoaded(call, ok, t) /\ call.room \in DOMAIN roomStates)
          => roomStates'[call.room] =
                kvBody(call.op, roomStates, call.room, call.sock, t,
                       nextObj + 1).rs[call.room]]_vars

(* ----------------------------- C34 ------------------------------------ *)
\* The channels after `data` has been forwarded for sender s: the draw-event
\* is queued last for every other member of the sender's room; the sender's
\* channel and the channels of the other rooms are as before.
Forwarded(s, data) ==
    \A u \in Sockets :
        chan'[u] = IF u \in Members(socketRoom[s]) \ {s}
                   THEN Append(chan[u], [type |-> "draw-event", data |-> data])
                   ELSE chan[u]

\* No room's actionHistory or redoStack differs after the step.
HistoriesKept ==
    \A r \in DOMAIN roomStates' :
        /\ roomStates'[r].actionHistory = RoomBefore(r).actionHistory
        /\ roomStates'[r].redoStack = RoomBefore(r).redoStack

\* C34: every start-drawing and every draw-event the server receives is
\* forwarded as a draw-event to all other members of the sender's room and
\* not to the sender, behind everything forwarded before (so in the order
\* the sender emitted them), and no actionHistory or redoStack changes.
C34_LiveForwarding ==
    [][\A s \in Sockets :
          /\ (\E t \in Times : HandleStartDrawing(s, t))
                => Forwarded(s, Segment(s, 1)) /\ HistoriesKept
          /\ HandleDrawEvent(s)
                => /\ Forwarded(s, Segment(s, Len(sentStroke[s]) + 1))
                   /\ HistoriesKept]_vars

\* Both clients are in one room; the two segments of s1's stroke wait in
\* s2's channel in the order s1 sent them and s1 has been sent neither.
C34_Witness ==
    /\ conn["s1"] = "connected" /\ conn["s2"] = "connected"
    /\ socketRoom["s1"] = socketRoom["s2"]
    /\ sentStroke["s1"] = <<Segment("s1", 1), Segment("s1", 2)>>
    /\ chan["s2"] = <<[type |-> "draw-event", data |-> Segment("s1", 1)],
                      [type |-> "draw-event", data |-> Segment("s1", 2)]>>
    /\ \A i \in 1..Len(chan["s1"]) : chan["s1"][i].type # "draw-event"

(* ----------------------------- C35 ------------------------------------ *)
\* The action objects a map of room states holds: in the histories, the redo
\* stacks and the active actions of its rooms.
ObjsIn(rs) ==
    UNION {{rs[r].actionHistory[i].obj : i \in 1..Len(rs[r].actionHistory)}
           \cup {rs[r].redoStack[i].obj : i \in 1..Len(rs[r].redoStack)}
           \cup {rs[r].activeActions[u].obj : u \in DOMAIN rs[r].activeActions}
           : r \in DOMAIN rs}

\* C35: a start-drawing from a client that already has an active action
\* replaces it: the earlier action is in no room afterwards and no action
\* that has left the room states ever comes back, so it is never committed.
\* The next stop-drawing appends exactly one action to the history, the
\* active one, whose events are those received since the latest
\* start-drawing.
C35_LastStartWins ==
    [][/\ ObjsIn(roomStates') \subseteq ObjsIn(roomStates) \cup {nextObj + 1}
       /\ \A s \in Sockets :
            LET state == RoomBefore(socketRoom[s])
            IN s \in DOMAIN state.activeActions
               => /\ (\E t \in Times : HandleStartDrawing(s, t))
                        => LET after == roomStates'[socketRoom[s]]
                           IN /\ state.activeActions[s].obj \notin ObjsIn(roomStates')
                              /\ after.activeActions[s].obj = nextObj + 1
                              /\ after.activeActions[s].events = <<Segment(s, 1)>>
                              /\ after.actionHistory = state.actionHistory
                  /\ HandleStopDrawing(s)
                        => LET after == roomStates'[socketRoom[s]]
                           IN /\ after.actionHistory =
                                    Append(state.actionHistory, state.activeActions[s])
                              /\ state.activeActions[s].events = sentStroke[s]
                              /\ s \notin DOMAIN after.activeActions]_vars

\* s1 has started twice and stopped once, nobody has left and no stroke is
\* in progress: the history of r1 holds the second action only, with the
\* segments sent after the second start.
C35_Witness ==
    /\ nextObj = 2
    /\ \A u \in Sockets : conn[u] # "closed"
    /\ "r1" \in DOMAIN roomStates
    /\ \A r \in DOMAIN roomStates : roomStates[r].activeActions = <<>>
    /\ roomStates["r1"].redoStack = <<>>
    /\ Len(roomStates["r1"].actionHistory) = 1
    /\ roomStates["r1"].actionHistory[1].obj = 2
    /\ roomStates["r1"].actionHistory[1].events
          = <<Segment("s1", 1), Segment("s1", 2)>>

(* ----------------------------- C36 ------------------------------------ *)
\* The committed actions of a map of room states: those in the histories
\* and the redo stacks of its rooms.
CommittedIn(rs) ==
    UNION {{rs[r].actionHistory[i] : i \in 1..Len(rs[r].actionHistory)}
           \cup {rs[r].redoStack[i] : i \in 1..Len(rs[r].redoStack)}
           : r \in DOMAIN rs}

\* C36: a committed action is immutable.  Whatever the server does next
\* (start-drawing, draw-event, stop-drawing, undo, redo, a connection or a
\* disconnect, from its author or anyone else), an action object that is in
\* a history or a redo stack before and after the step has the same id and
\* the same events.
C36_ImmutableAfterCommit ==
    [][\A a \in CommittedIn(roomStates), b \in CommittedIn(roomStates') :
          a.obj = b.obj => a.id = b.id /\ a.events = b.events]_vars

\* The first stroke of s1 has been committed and undone, and s1 has sent
\* two segments of its next stroke: the undone action still has the two
\* segments it was committed with.
C36_Witness ==
    /\ "r1" \in DOMAIN roomStates
    /\ roomStates["r1"].actionHistory = <<>>
    /\ Len(roomStates["r1"].redoStack) = 1
    /\ roomStates["r1"].redoStack[1].obj = 1
    /\ roomStates["r1"].redoStack[1].events
          = <<Segment("s1", 1), Segment("s1", 2)>>
    /\ "s1" \in DOMAIN roomStates["r1"].activeActions
    /\ roomStates["r1"].activeActions["s1"].obj = 2
    /\ Len(roomStates["r1"].activeActions["s1"].events) = 2

(* ----------------------------- C37 ------------------------------------ *)
\* C37: in every reachable state the actions of a room's actionHistory are
\* in non-decreasing order of the time in their ids.
C37_HistoryOrderedByIdTime ==
    \A r \in DOMAIN roomStates :
        \A i, j \in 1..Len(roomStates[r].actionHistory) :
            i < j => roomStates[r].actionHistory[i].id[2]
                        <= roomStates[r].actionHistory[j].id[2]

(* ----------------------------- C38 ------------------------------------ *)
\* The rooms other than roomName are as before, and roomName has the
\* history and the redo stack given and its active actions as before.
OnlyMoved(roomName, history, redo) ==
    /\ \A r \in DOMAIN roomStates' :
          r # roomName => r \in DOMAIN roomStates /\ roomStates'[r] = roomStates[r]
    /\ roomStates'[roomName].actionHistory = history
    /\ roomStates'[roomName].redoStack = redo
    /\ roomStates'[roomName].activeActions = RoomBefore(roomName).activeActions

\* C38: in every room actionHistory and redoStack hold each action object
\* at most once between them.  An undo moves the last action of the history
\* to the end of the redo stack, a redo moves the last action of the redo
\* stack to the end of the history; neither changes anything else of any
\* room, activeActions included.
C38_DisjointAndMoved ==
    /\ [](\A r \in DOMAIN roomStates :
             LET all == roomStates[r].actionHistory \o roomStates[r].redoStack
             IN \A i, j \in 1..Len(all) : i # j => all[i].obj # all[j].obj)
    /\ [][\A s \in Sockets :
             LET roomName == socketRoom[s]
                 state == RoomBefore(roomName)
             IN /\ (HandleUndo(s) /\ state.actionHistory # <<>>)
                      => OnlyMoved(roomName, Front(state.actionHistory),
                                   Append(state.redoStack, Last(state.actionHistory)))
                /\ (HandleRedo(s) /\ state.redoStack # <<>>)
                      => OnlyMoved(roomName,
                                   Append(state.actionHistory, Last(state.redoStack)),
                                   Front(state.redoStack))]_vars

\* A stroke has been committed, undone and redone while another client had
\* a stroke in progress: the action is back in the history, the redo stack
\* is empty and the stroke in progress is still there.
C38_Witness ==
    /\ "r1" \in DOMAIN roomStates
    /\ Len(serverLog["r1"]) = 3
    /\ serverLog["r1"][2].type = "perform-undo"
    /\ serverLog["r1"][3].type = "perform-redo"
    /\ Len(roomStates["r1"].actionHistory) = 1
    /\ roomStates["r1"].redoStack = <<>>
    /\ roomStates["r1"].activeActions # <<>>

(* ----------------------------- C39 ------------------------------------ *)
\* C39: when a client disconnects, clearActiveAction leaves no active
\* action of that client in any room; the rooms are the same, each with
\* the actionHistory and the redoStack it had, and the active action of
\* every other client is as it was.
C39_ClearActiveActionFrame ==
    [][\A s \in Sockets :
          HandleDisconnect(s)
          => /\ DOMAIN roomStates' = DOMAIN roomStates
             /\ \A r \in DOMAIN roomStates :
                   /\ s \notin DOMAIN roomStates'[r].activeActions
                   /\ roomStates'[r].actionHistory = roomStates[r].actionHistory
                   /\ roomStates'[r].redoStack = roomStates[r].redoStack
                   /\ DOMAIN roomStates'[r].activeActions
                         = DOMAIN roomStates[r].activeActions \ {s}
                   /\ \A u \in DOMAIN roomStates'[r].activeActions :
                         roomStates'[r].activeActions[u]
                            = roomStates[r].activeActions[u]]_vars

\* s1 has closed its connection in the middle of a stroke while s2 was in
\* the middle of its own in the same room: only the stroke of s2 is active.
C39_Witness ==
    /\ conn["s1"] = "closed"
    /\ discarded = {1}
    /\ socketRoom["s2"] = socketRoom["s1"]
    /\ socketRoom["s1"] \in DOMAIN roomStates
    /\ DOMAIN roomStates[socketRoom["s1"]].activeActions = {"s2"}
    /\ roomStates[socketRoom["s1"]].activeActions["s2"].obj = 2
====
